---- MODULE Spec2Model ----
(***************************************************************************)
(* Granular caching layer of the trip editor: the KV transport, the        *)
(* GranularCacheService (component cache, structure index, whole-document  *)
(* entry with its stale marker), the granular loader (fast path, assembly  *)
(* from cache, database fallback with background repopulation) and the     *)
(* granular save actions (bundle save and the two single-field saves).     *)
(***************************************************************************)
EXTENDS Integers, Sequences, FiniteSets, TLC

(***************************************************************************)
(* Bounds of the model                                                     *)
(***************************************************************************)
\* handler invocations in one behaviour without injected failures
MaxOps == 3
\* handler invocations in one behaviour with injected failures
MaxFaultOps == 2
\* saveGranularChanges invocations in one behaviour
MaxBundleSaves == 1
\* handler invocations that run to completion before the stepwise reader
\* and writer start
MaxWarmOps == 2
\* seconds by which one Tick advances the clock of the KV store
TickSeconds == 300
\* clock ticks in one behaviour
MaxTicks == 1
\* the store statements of one invocation that may be made to fail: 1..MaxDbFailAt
MaxDbFailAt == 4

(***************************************************************************)
(* Program constants: lib/cache/granular-cache-service.ts                  *)
(***************************************************************************)
TTL_METADATA == 3600
TTL_DAY == 1800
TTL_ACTIVITY == 1800
TTL_FULL_TRIP == 900
TTL_STRUCTURE == 3600
TTL_ACTIVE_EDIT == 300
\* ttl_seconds of the { invalidated: true } entries
TTL_INVALIDATED == 1

(***************************************************************************)
(* Values.  Every value is a record so that any two values compare.        *)
(***************************************************************************)
\* JavaScript null / undefined
NULL == [null |-> TRUE]
\* an exception in flight out of an awaited call
Thrown == [thrown |-> TRUE]
\* the raw strings 'true' and 'false' of the stale marker
StrTrue == [str |-> "true"]
StrFalse == [str |-> "false"]
\* the object { invalidated: true }
Invalidated == [invalidated |-> TRUE]

\* { ...a, ...b }
Spread(a, b) ==
  [f \in (DOMAIN a) \cup (DOMAIN b) |-> IF f \in DOMAIN b THEN b[f] ELSE a[f]]

\* JavaScript truthiness of a value that is null or an object / non-empty string
Truthy(v) == v # NULL

\* a Date object and the ISO string JSON.stringify turns it into
DateOf(n) == [date |-> n]
IsoString(n) == [iso |-> n]

\* JSON.stringify of an object: Date fields are written as ISO strings
JSONStringify(obj) ==
  [json |-> [f \in DOMAIN obj |->
               IF f \in {"createdAt"} /\ obj[f] \in {DateOf(0), DateOf(1)}
               THEN IsoString(obj[f].date) ELSE obj[f]]]

\* JSON.parse: the object as written, ISO strings stay strings
JSONParse(s) == s.json

(***************************************************************************)
(* Identifiers                                                             *)
(***************************************************************************)
TripId == "t1"
DayIds == {"d1", "d2", "d3"}
ActivityIds == {"a1", "a2", "a3"}
\* the order in which the store hands out fresh ids
DaySeq == <<"d1", "d2", "d3">>
ActivitySeq == <<"a1", "a2", "a3">>
\* provisional ids of the client
TempDayId == "temp-d"
TempActivityId == "temp-a"

Titles == {"T0", "T1"}
Descriptions == {"X0", "X1"}

(***************************************************************************)
(* CacheKeys                                                               *)
(***************************************************************************)
KeyMetadata(tripId) == <<"meta", tripId>>
KeyDay(dayId) == <<"day", dayId>>
KeyActivity(activityId) == <<"activity", activityId>>
KeyFullTrip(tripId) == <<"full", tripId>>
KeyPreview(tripId) == <<"preview", tripId>>
KeyStructure(tripId) == <<"structure", tripId>>
KeyStale(tripId) == <<"stale", tripId>>

\* lib/cache/simple-cache.ts: `trip:${CACHE_VERSION}:${tripId}`
SimpleKey(tripId) == <<"trip:v1", tripId>>
\* the argument the simple actions pass to invalidateCache: `trip:${tripId}`
PrefixedTripId == "trip:t1"

Keys ==
  {KeyMetadata(TripId), KeyFullTrip(TripId), KeyPreview(TripId),
   KeyStructure(TripId), KeyStale(TripId)}
  \cup {KeyDay(d) : d \in DayIds} \cup {KeyActivity(a) : a \in ActivityIds}
  \cup {SimpleKey(TripId), SimpleKey(PrefixedTripId)}

KeyClasses == {"meta", "day", "activity", "full", "preview", "structure", "stale"}

(***************************************************************************)
(* State                                                                   *)
(***************************************************************************)
VARIABLES
  db,      \* the authoritative store: trip row, day rows, activity rows
  kv,      \* the remote TTL key-value store: key -> NULL or [value, ttl]
  pending, \* snapshots handed to populateGranularCache and not yet written
  last,    \* the last completed handler invocation and what it returned
  ops,     \* number of handler invocations so far
  saves,   \* number of saveGranularChanges invocations so far
  ticks,   \* number of clock ticks so far
  rw       \* one loadTripGranular and one write running step by step:
           \* the position and the local variables of each

vars == <<db, kv, pending, last, ops, saves, ticks, rw>>

(***************************************************************************)
(* The authoritative store (db/schema/trips.ts): one trip row, day rows    *)
(* and activity rows; activities.day_id references trip_days.id with       *)
(* ON DELETE CASCADE.                                                      *)
(***************************************************************************)
TripRow == [id |-> TripId, creatorId |-> "owner", title |-> "T0", createdAt |-> DateOf(0)]
DayRow(id, dayNumber, title) ==
  [id |-> id, tripId |-> TripId, dayNumber |-> dayNumber, title |-> title]
ActivityRow(id, dayId, description, orderIndex) ==
  [id |-> id, dayId |-> dayId, description |-> description, orderIndex |-> orderIndex]

\* the seeded trip: day d1 with activities a1, a2 and an empty day d2
InitialStore ==
  [trip |-> TripRow,
   days |-> [d \in DayIds |->
               IF d = "d1" THEN DayRow("d1", 1, "T0")
               ELSE IF d = "d2" THEN DayRow("d2", 2, "T0") ELSE NULL],
   acts |-> [a \in ActivityIds |->
               IF a = "a1" THEN ActivityRow("a1", "d1", "X0", 1)
               ELSE IF a = "a2" THEN ActivityRow("a2", "d1", "X0", 2) ELSE NULL],
   nextDay |-> 3,
   nextAct |-> 3]

Rank(seq, x) == CHOOSE i \in 1..Len(seq) : seq[i] = x

\* ORDER BY key: the ids of S as a sequence ordered by Key, rows with equal
\* keys in the order of their ids
RECURSIVE OrderBy(_, _, _)
OrderBy(S, Key(_), idseq) ==
  IF S = {} THEN <<>>
  ELSE LET m == CHOOSE x \in S :
                  \A y \in S : \/ Key(x) < Key(y)
                               \/ Key(x) = Key(y) /\ Rank(idseq, x) <= Rank(idseq, y)
       IN <<m>> \o OrderBy(S \ {m}, Key, idseq)

DayIdsOf(store) == {d \in DayIds : store.days[d] # NULL}
ActivityIdsOf(store, dayId) ==
  {a \in ActivityIds : store.acts[a] # NULL /\ store.acts[a].dayId = dayId}

OrderedDayIds(store) ==
  LET Key(d) == store.days[d].dayNumber IN OrderBy(DayIdsOf(store), Key, DaySeq)
OrderedActivityIds(store, dayId) ==
  LET Key(a) == store.acts[a].orderIndex
  IN OrderBy(ActivityIdsOf(store, dayId), Key, ActivitySeq)

\* the json_build_object of one activity / one day of the bulk-fetch query
ActivityJson(store, a) == Spread(store.acts[a], [gems |-> <<>>])
DayJson(store, d) ==
  LET ids == OrderedActivityIds(store, d)
  IN Spread(store.days[d],
            [activities |-> [i \in 1..Len(ids) |-> ActivityJson(store, ids[i])]])

\* loadFromDatabase: the full document tree in position order
LoadFromDatabase(store, tripId) ==
  IF store.trip = NULL \/ tripId # TripId THEN NULL
  ELSE LET ids == OrderedDayIds(store)
       IN Spread(store.trip, [days |-> [i \in 1..Len(ids) |-> DayJson(store, ids[i])]])

(***************************************************************************)
(* An invocation context st threads the store, the KV store, the failures  *)
(* injected into this invocation and the exception in flight through the   *)
(* statements of one handler.                                              *)
(*   fail     : key classes whose KV requests fail during this invocation  *)
(*   dbFailAt : index of the store statement that fails (0: none)          *)
(*   exc      : "none", or the kind of error being thrown                  *)
(*   kvWrites, dbWrites : KV writes / store writes done by this invocation *)
(*   cu       : the cacheUpdates object of saveGranularChanges             *)
(***************************************************************************)
Ctx(store, cache, bg, user, fail, dbFailAt) ==
  [db |-> store, kv |-> cache, pending |-> bg, user |-> user, fail |-> fail,
   dbFailAt |-> dbFailAt, dbCalls |-> 0, exc |-> "none", kvWrites |-> 0,
   dbWrites |-> 0,
   cu |-> [metadata |-> NULL, days |-> <<>>, activities |-> <<>>, structure |-> NULL]]

\* one awaited statement against the store: it fails when it is the
\* dbFailAt-th statement or when Reject holds (constraint violation)
DbStatement(st, newStore, Reject, isWrite) ==
  IF st.exc # "none" THEN st
  ELSE IF st.dbCalls + 1 = st.dbFailAt \/ Reject
       THEN [st EXCEPT !.dbCalls = @ + 1, !.exc = "db"]
       ELSE [st EXCEPT !.dbCalls = @ + 1, !.db = newStore,
                       !.dbWrites = IF isWrite THEN @ + 1 ELSE @]

(***************************************************************************)
(* KV transport: lib/cache/redisBridge.ts                                  *)
(***************************************************************************)
\* setKV: POST /set; throws on a transport failure
SetKV(st, key, value, ttl_seconds) ==
  IF st.exc # "none" THEN st
  ELSE IF key[1] \in st.fail THEN [st EXCEPT !.exc = "kv"]
  ELSE [st EXCEPT !.kv[key] = [value |-> value, ttl |-> ttl_seconds],
                  !.kvWrites = @ + 1]

\* getKV: GET /get/{key}; throws on a transport failure
GetKV(st, key) ==
  IF key[1] \in st.fail THEN Thrown
  ELSE [value |-> IF st.kv[key] = NULL THEN NULL ELSE st.kv[key].value]

\* the catch block of a cache-service method: log and continue
Catch(st) == [st EXCEPT !.exc = "none"]

(***************************************************************************)
(* GranularCacheService: lib/cache/granular-cache-service.ts               *)
(***************************************************************************)
\* the body shared by getMetadata, getDay, getActivity and getStructure:
\* the parsed value when the response holds one, null otherwise and null
\* when the transport throws
GetParsed(st, key) ==
  LET response == GetKV(st, key)
  IN IF response = Thrown THEN NULL
     ELSE IF Truthy(response.value) THEN JSONParse(response.value)
     ELSE NULL

GetMetadata(st, tripId) == GetParsed(st, KeyMetadata(tripId))
GetDay(st, dayId) == GetParsed(st, KeyDay(dayId))
GetActivity(st, activityId) == GetParsed(st, KeyActivity(activityId))
GetStructure(st, tripId) == GetParsed(st, KeyStructure(tripId))

SetMetadata(st, tripId, metadata) ==
  IF st.exc # "none" THEN st
  ELSE Catch(SetKV(st, KeyMetadata(tripId), JSONStringify(metadata), TTL_METADATA))

SetDay(st, dayId, day, isActiveEdit) ==
  IF st.exc # "none" THEN st
  ELSE Catch(SetKV(st, KeyDay(dayId), JSONStringify(day),
                   IF isActiveEdit THEN TTL_ACTIVE_EDIT ELSE TTL_DAY))

SetActivity(st, activityId, activity, isActiveEdit) ==
  IF st.exc # "none" THEN st
  ELSE Catch(SetKV(st, KeyActivity(activityId), JSONStringify(activity),
                   IF isActiveEdit THEN TTL_ACTIVE_EDIT ELSE TTL_ACTIVITY))

SetStructure(st, tripId, structure) ==
  IF st.exc # "none" THEN st
  ELSE Catch(SetKV(st, KeyStructure(tripId), JSONStringify(structure), TTL_STRUCTURE))

\* getFullTrip without the stale check
GetFullTripNoStaleCheck(st, tripId) ==
  LET response == GetKV(st, KeyFullTrip(tripId))
  IN IF response = Thrown THEN NULL
     ELSE IF Truthy(response.value)
          THEN LET data == JSONParse(response.value)
               IN IF "days" \in DOMAIN data THEN data
                  ELSE Spread(data, [days |-> <<>>])
          ELSE NULL

\* getFullTrip: null when the marker reads 'true', else the parsed payload
\* with data.days = data.days || []
GetFullTrip(st, tripId) ==
  LET staleCheck == GetKV(st, KeyStale(tripId))
  IN IF staleCheck = Thrown THEN NULL
     ELSE IF staleCheck.value = StrTrue THEN NULL
     ELSE GetFullTripNoStaleCheck(st, tripId)

\* a setFullTrip that writes the payload and leaves the marker as it is
SetFullTripPayloadOnly(st, tripId, trip) ==
  IF st.exc # "none" THEN st
  ELSE Catch(SetKV(st, KeyFullTrip(tripId), JSONStringify(trip), TTL_FULL_TRIP))

\* setFullTrip: the payload, then the marker 'false', in one try block
SetFullTrip(st, tripId, trip) ==
  IF st.exc # "none" THEN st
  ELSE Catch(SetKV(SetKV(st, KeyFullTrip(tripId), JSONStringify(trip), TTL_FULL_TRIP),
                   KeyStale(tripId), StrFalse, TTL_FULL_TRIP))

\* a markStale that flips the marker
MarkStaleToggle(st, tripId) ==
  IF st.exc # "none" THEN st
  ELSE Catch(SetKV(st, KeyStale(tripId),
                   IF GetKV(st, KeyStale(tripId)) = [value |-> StrTrue]
                   THEN StrFalse ELSE StrTrue,
                   TTL_FULL_TRIP))

\* a markStale whose marker lives as long as an active edit
MarkStaleShortLived(st, tripId) ==
  IF st.exc # "none" THEN st
  ELSE Catch(SetKV(st, KeyStale(tripId), StrTrue, TTL_ACTIVE_EDIT))

\* markStale that lets a transport failure escape
MarkStaleNoCatch(st, tripId) ==
  IF st.exc # "none" THEN st
  ELSE SetKV(st, KeyStale(tripId), StrTrue, TTL_FULL_TRIP)

\* markStale: the marker 'true' with the whole-document TTL
MarkStale(st, tripId) ==
  IF st.exc # "none" THEN st
  ELSE Catch(SetKV(st, KeyStale(tripId), StrTrue, TTL_FULL_TRIP))

\* getDays / getActivities: the ids that resolved, with their fragments
\* (a Map: id -> fragment)
GetDays(st, dayIds) ==
  [d \in {dayIds[i] : i \in 1..Len(dayIds)} \cap {x \in DayIds : GetDay(st, x) # NULL}
     |-> GetDay(st, d)]

GetActivities(st, activityIds) ==
  [a \in activityIds \cap {x \in ActivityIds : GetActivity(st, x) # NULL}
     |-> GetActivity(st, a)]

ComponentKey(componentType, componentId) ==
  IF componentType = "day" THEN KeyDay(componentId) ELSE KeyActivity(componentId)

\* invalidateComponent: { invalidated: true } with ttl 1, then markStale
InvalidateComponent(st, tripId, componentType, componentId) ==
  IF st.exc # "none" THEN st
  ELSE Catch(MarkStale(SetKV(st, ComponentKey(componentType, componentId),
                             JSONStringify(Invalidated), TTL_INVALIDATED),
                       tripId))

\* a Map as the sequence of its entries in insertion order
MapSet(m, k, v) ==
  IF \E i \in 1..Len(m) : m[i].k = k
  THEN [i \in 1..Len(m) |-> IF m[i].k = k THEN [k |-> k, v |-> v] ELSE m[i]]
  ELSE Append(m, [k |-> k, v |-> v])

RECURSIVE SetDaysActive(_, _)
SetDaysActive(st, m) ==
  IF m = <<>> THEN st
  ELSE SetDaysActive(SetDay(st, Head(m).k, Head(m).v, TRUE), Tail(m))

RECURSIVE SetActivitiesActive(_, _)
SetActivitiesActive(st, m) ==
  IF m = <<>> THEN st
  ELSE SetActivitiesActive(SetActivity(st, Head(m).k, Head(m).v, TRUE), Tail(m))

\* a smartSave that only marks the trip stale
SmartSaveMarkOnly(st, tripId, changes) ==
  IF st.exc # "none" THEN st ELSE MarkStale(st, tripId)

\* smartSave: merge the metadata into the cached metadata when there is one,
\* write every day and activity of the maps with the active-edit TTL, write
\* the structure when one is given, mark the trip stale
SmartSave(st, tripId, changes) ==
  IF st.exc # "none" THEN st
  ELSE
    LET existing == GetMetadata(st, tripId)
        s1 == IF changes.metadata # NULL /\ existing # NULL
              THEN SetMetadata(st, tripId, Spread(existing, changes.metadata))
              ELSE st
        s2 == SetDaysActive(s1, changes.days)
        s3 == SetActivitiesActive(s2, changes.activities)
        s4 == IF changes.structure # NULL
              THEN SetStructure(s3, tripId, changes.structure) ELSE s3
    IN MarkStale(s4, tripId)

\* one settled setKV of clearTripCache's Promise.allSettled
SettledInvalidate(st, key) ==
  Catch(SetKV(st, key, JSONStringify(Invalidated), TTL_INVALIDATED))

RECURSIVE SettledInvalidateAll(_, _)
SettledInvalidateAll(st, keys) ==
  IF keys = {} THEN st
  ELSE LET k == CHOOSE x \in keys : TRUE
       IN SettledInvalidateAll(SettledInvalidate(st, k), keys \ {k})

\* clearTripCache: only when a structure is cached, overwrite the trip's keys
\* and the keys of the structure's days and activities with
\* { invalidated: true }, ttl 1.  A cached structure without dayIds makes
\* structure.dayIds.map throw.
ClearTripCache(st, tripId) ==
  IF st.exc # "none" THEN st
  ELSE
    LET structure == GetStructure(st, tripId)
    IN IF structure = NULL THEN st
       ELSE IF "dayIds" \notin DOMAIN structure THEN [st EXCEPT !.exc = "type"]
       ELSE SettledInvalidateAll(st,
              {KeyMetadata(tripId), KeyFullTrip(tripId), KeyPreview(tripId),
               KeyStructure(tripId), KeyStale(tripId)}
              \cup {KeyDay(structure.dayIds[i]) : i \in 1..Len(structure.dayIds)}
              \cup {KeyActivity(a) : a \in DOMAIN structure.activityMap})

(***************************************************************************)
(* The granular loader: lib/cache/granular-trip-loader.ts                  *)
(***************************************************************************)
\* an attachment that keeps a slot for every listed activity
AttachActivitiesUnfiltered(structure, activityMap, dayId) ==
  LET dayActivityIds == IF dayId \in DOMAIN structure.dayMap
                        THEN structure.dayMap[dayId].activityIds ELSE <<>>
  IN [i \in 1..Len(dayActivityIds) |->
        IF dayActivityIds[i] \in DOMAIN activityMap
        THEN activityMap[dayActivityIds[i]] ELSE NULL]

\* the activities attached to one day: those of the day's list in the
\* structure that resolved, in that order
AttachActivities(structure, activityMap, dayId) ==
  LET dayActivityIds == IF dayId \in DOMAIN structure.dayMap
                        THEN structure.dayMap[dayId].activityIds ELSE <<>>
      Resolved(actId) == actId \in DOMAIN activityMap
      kept == SelectSeq(dayActivityIds, Resolved)
  IN [i \in 1..Len(kept) |-> activityMap[kept[i]]]

\* a day check that accepts a partial set of days
AllDaysResolvedLax(structure, dayMap) == TRUE

\* the check that every day of the structure resolved
AllDaysResolved(structure, dayMap) ==
  Cardinality(DOMAIN dayMap) = Len(structure.dayIds)

\* assembleFromCache: null when the structure or the metadata is missing or
\* not every day of the structure resolved (a structure without dayIds throws
\* inside the try block, which also yields null); otherwise the metadata with
\* the days in structure order, each with its resolved activities
AssembleFromCache(st, tripId) ==
  LET structure == GetStructure(st, tripId)
      metadata == GetMetadata(st, tripId)
  IN IF structure = NULL \/ metadata = NULL THEN NULL
     ELSE IF "dayIds" \notin DOMAIN structure THEN NULL
     ELSE
       LET dayMap == GetDays(st, structure.dayIds)
       IN IF ~AllDaysResolved(structure, dayMap) THEN NULL
          ELSE
            LET activityMap == GetActivities(st, DOMAIN structure.activityMap)
                present == SelectSeq(structure.dayIds, LAMBDA d : d \in DOMAIN dayMap)
                days == [i \in 1..Len(present) |->
                           Spread(dayMap[present[i]],
                                  [activities |->
                                     AttachActivities(structure, activityMap, present[i])])]
            IN Spread(metadata, [days |-> days])

\* the metadata object populateGranularCache builds from a trip
MetadataOf(trip) ==
  [id |-> trip.id, creatorId |-> trip.creatorId, title |-> trip.title,
   createdAt |-> trip.createdAt]

\* the structure populateGranularCache builds from a trip
StructureOf(trip) ==
  LET dayOf(d) == CHOOSE i \in 1..Len(trip.days) : trip.days[i].id = d
      allActs == UNION {{trip.days[i].activities[j].id :
                           j \in 1..Len(trip.days[i].activities)} :
                        i \in 1..Len(trip.days)}
  IN [tripId |-> trip.id,
      dayIds |-> [i \in 1..Len(trip.days) |-> trip.days[i].id],
      dayMap |-> [d \in {trip.days[i].id : i \in 1..Len(trip.days)} |->
                    [activityIds |->
                       [j \in 1..Len(trip.days[dayOf(d)].activities) |->
                          trip.days[dayOf(d)].activities[j].id]]],
      activityMap |-> [a \in allActs |-> [gemIds |-> <<>>]],
      version |-> 1]

RECURSIVE PopulateActivities(_, _)
PopulateActivities(st, activities) ==
  IF activities = <<>> THEN st
  ELSE PopulateActivities(
         SetActivity(st, Head(activities).id, Head(activities), FALSE),
         Tail(activities))

\* a repopulation of the days that leaves the activities out
RECURSIVE PopulateDaysOnly(_, _)
PopulateDaysOnly(st, days) ==
  IF days = <<>> THEN st
  ELSE PopulateDaysOnly(SetDay(st, Head(days).id, Head(days), FALSE), Tail(days))

RECURSIVE PopulateDays(_, _)
PopulateDays(st, days) ==
  IF days = <<>> THEN st
  ELSE PopulateDays(
         PopulateActivities(SetDay(st, Head(days).id, Head(days), FALSE),
                            Head(days).activities),
         Tail(days))

\* populateGranularCache: metadata, every day and activity, the structure and
\* the whole-document entry, all from the trip it was given
PopulateGranularCache(st, trip) ==
  LET s1 == SetMetadata(st, trip.id, MetadataOf(trip))
      s2 == PopulateDays(s1, trip.days)
      s3 == SetStructure(s2, trip.id, StructureOf(trip))
  IN Catch(SetFullTrip(s3, trip.id, trip))

\* loadTripGranular: [st |-> context after the call, ret |-> returned value,
\* src |-> the path that produced it]
LoadTripGranular(st, tripId) ==
  LET fullTrip == GetFullTrip(st, tripId)
      assembled == AssembleFromCache(st, tripId)
      read == DbStatement(st, st.db, FALSE, FALSE)
      dbTrip == LoadFromDatabase(st.db, tripId)
  IN IF Truthy(fullTrip) THEN [st |-> st, ret |-> fullTrip, src |-> "full"]
     ELSE IF Truthy(assembled)
          THEN [st |-> SetFullTrip(st, tripId, assembled), ret |-> assembled,
                src |-> "assembled"]
     ELSE IF read.exc # "none"
          THEN [st |-> Catch(read), ret |-> NULL, src |-> "error"]
     ELSE IF Truthy(dbTrip)
          THEN [st |-> [read EXCEPT !.pending = @ \cup {dbTrip}], ret |-> dbTrip,
                src |-> "db"]
     ELSE [st |-> read, ret |-> NULL, src |-> "db"]

(***************************************************************************)
(* Statements against the store                                            *)
(***************************************************************************)
\* db.select().from(trips).where(eq(trips.id, tripId)).limit(1)
DbSelectTrip(st) == DbStatement(st, st.db, FALSE, FALSE)

\* db.update(trips).set(set).where(eq(trips.id, tripId))
DbUpdateTrip(st, set) ==
  DbStatement(st, [st.db EXCEPT !.trip = Spread(@, set)], FALSE, TRUE)

\* db.insert(tripDays).values(...).returning(): the row gets a fresh id
DbInsertDay(st, day) ==
  IF st.exc # "none" THEN st
  ELSE DbStatement(st,
         [st.db EXCEPT !.days[DaySeq[st.db.nextDay]] =
                         DayRow(DaySeq[st.db.nextDay], day.dayNumber, day.title),
                       !.nextDay = @ + 1],
         FALSE, TRUE)

\* db.update(tripDays).set({title, dayNumber}).where(eq(tripDays.id, id));
\* an id that is not a uuid is rejected by the store
DbUpdateDay(st, id, set) ==
  IF st.exc # "none" THEN st
  ELSE DbStatement(st,
         IF id \in DayIdsOf(st.db)
         THEN [st.db EXCEPT !.days[id] = Spread(@, set)] ELSE st.db,
         id \notin DayIds, TRUE)

\* db.delete(tripDays).where(inArray(tripDays.id, ids)), cascading to the
\* activities of the deleted days
DbDeleteDays(st, ids) ==
  IF st.exc # "none" THEN st
  ELSE DbStatement(st,
         [st.db EXCEPT
            !.days = [d \in DayIds |-> IF d \in ids THEN NULL ELSE @[d]],
            !.acts = [a \in ActivityIds |->
                        IF @[a] # NULL /\ @[a].dayId \in ids THEN NULL ELSE @[a]]],
         FALSE, TRUE)

\* db.insert(activities).values(...).returning(); day_id must reference an
\* existing day row
DbInsertActivity(st, activity) ==
  IF st.exc # "none" THEN st
  ELSE DbStatement(st,
         [st.db EXCEPT !.acts[ActivitySeq[st.db.nextAct]] =
                         ActivityRow(ActivitySeq[st.db.nextAct], activity.dayId,
                                     activity.description, activity.orderIndex),
                       !.nextAct = @ + 1],
         activity.dayId \notin DayIdsOf(st.db), TRUE)

\* db.update(activities).set(set).where(eq(activities.id, id))
DbUpdateActivity(st, id, set) ==
  IF st.exc # "none" THEN st
  ELSE DbStatement(st,
         IF id \in ActivityIds /\ st.db.acts[id] # NULL
         THEN [st.db EXCEPT !.acts[id] = Spread(@, set)] ELSE st.db,
         id \notin ActivityIds, TRUE)

\* db.delete(activities).where(inArray(activities.id, ids))
DbDeleteActivities(st, ids) ==
  IF st.exc # "none" THEN st
  ELSE DbStatement(st,
         [st.db EXCEPT !.acts = [a \in ActivityIds |->
                                   IF a \in ids THEN NULL ELSE @[a]]],
         FALSE, TRUE)

(***************************************************************************)
(* The granular save actions: app/editor/[id]/actions-granular.ts          *)
(***************************************************************************)
\* an optional list of a change bundle: missing reads as empty
ListOf(r, f) == IF f \in DOMAIN r THEN r[f] ELSE <<>>
SetOf(seq) == {seq[i] : i \in 1..Len(seq)}

\* buildTripStructure: null when the trip has no day, else the id graph of
\* the store, days by dayNumber and activities by orderIndex
BuildTripStructure(st, tripId) ==
  LET s1 == DbStatement(st, st.db, FALSE, FALSE)
      dayIds == OrderedDayIds(st.db)
      s2 == IF dayIds = <<>> THEN s1 ELSE DbStatement(s1, s1.db, FALSE, FALSE)
      acts == UNION {ActivityIdsOf(st.db, d) : d \in SetOf(dayIds)}
  IN [st |-> s2,
      ret |-> IF s2.exc # "none" \/ dayIds = <<>> THEN NULL
              ELSE [tripId |-> tripId,
                    dayIds |-> dayIds,
                    dayMap |-> [d \in SetOf(dayIds) |->
                                  [activityIds |-> OrderedActivityIds(st.db, d)]],
                    activityMap |-> [a \in acts |-> [gemIds |-> <<>>]],
                    version |-> 1]]

RECURSIVE AddDays(_, _)
AddDays(st, added) ==
  IF added = <<>> \/ st.exc # "none" THEN st
  ELSE LET newId == DaySeq[st.db.nextDay]
           s1 == DbInsertDay(st, Head(added))
       IN IF s1.exc # "none" THEN s1
          ELSE AddDays([s1 EXCEPT !.cu.days =
                          MapSet(@, newId, Spread(Head(added), [id |-> newId]))],
                       Tail(added))

RECURSIVE UpdateDays(_, _)
UpdateDays(st, updated) ==
  IF updated = <<>> \/ st.exc # "none" THEN st
  ELSE LET day == Head(updated)
           s1 == DbUpdateDay(st, day.id,
                             [title |-> day.title, dayNumber |-> day.dayNumber])
       IN IF s1.exc # "none" THEN s1
          ELSE UpdateDays([s1 EXCEPT !.cu.days = MapSet(@, day.id, day)],
                          Tail(updated))

RECURSIVE InvalidateAll(_, _, _, _)
InvalidateAll(st, tripId, componentType, ids) ==
  IF ids = <<>> THEN st
  ELSE InvalidateAll(InvalidateComponent(st, tripId, componentType, Head(ids)),
                     tripId, componentType, Tail(ids))

DeleteDays(st, tripId, deleted) ==
  IF deleted = <<>> THEN st
  ELSE InvalidateAll(DbDeleteDays(st, SetOf(deleted)), tripId, "day", deleted)

RECURSIVE AddActivities(_, _)
AddActivities(st, added) ==
  IF added = <<>> \/ st.exc # "none" THEN st
  ELSE LET newId == ActivitySeq[st.db.nextAct]
           s1 == DbInsertActivity(st, Head(added))
       IN IF s1.exc # "none" THEN s1
          ELSE AddActivities([s1 EXCEPT !.cu.activities =
                                MapSet(@, newId, Spread(Head(added), [id |-> newId]))],
                             Tail(added))

RECURSIVE UpdateActivities(_, _)
UpdateActivities(st, updated) ==
  IF updated = <<>> \/ st.exc # "none" THEN st
  ELSE LET activity == Head(updated)
           s1 == DbUpdateActivity(st, activity.id,
                                  [description |-> activity.description,
                                   orderIndex |-> activity.orderIndex])
       IN IF s1.exc # "none" THEN s1
          ELSE UpdateActivities(
                 [s1 EXCEPT !.cu.activities = MapSet(@, activity.id, activity)],
                 Tail(updated))

DeleteActivities(st, tripId, deleted) ==
  IF deleted = <<>> THEN st
  ELSE InvalidateAll(DbDeleteActivities(st, SetOf(deleted)), tripId, "activity",
                     deleted)

\* the ownership check of saveGranularChanges
VerifyOwnership(st, tripId) ==
  IF st.user = NULL THEN [st EXCEPT !.exc = "auth"]
  ELSE LET s1 == DbSelectTrip(st)
       IN IF s1.exc # "none" THEN s1
          ELSE IF s1.db.trip = NULL \/ s1.db.trip.creatorId # st.user.id
               THEN [s1 EXCEPT !.exc = "auth"]
               ELSE s1

\* the check of saveActivityOnly and saveDayMetadata: a signed-in user
VerifyUser(st, tripId) ==
  IF st.user = NULL THEN [st EXCEPT !.exc = "auth"] ELSE st

\* the condition under which saveGranularChanges rebuilds the structure:
\* changes.days?.added || changes.days?.deleted (an array is truthy)
RebuildCondition(changes) ==
  /\ "days" \in DOMAIN changes
  /\ \/ "added" \in DOMAIN changes.days
     \/ "deleted" \in DOMAIN changes.days

RebuildStructure(st, changes) ==
  IF st.exc # "none" \/ ~RebuildCondition(changes) THEN st
  ELSE LET b == BuildTripStructure(st, changes.tripId)
       IN IF b.ret # NULL THEN SetStructure(b.st, changes.tripId, b.ret) ELSE b.st

\* the store statements of saveGranularChanges with the activity lists
\* handled before the day lists
PersistActivitiesFirst(st, changes) ==
  LET s0 == VerifyOwnership(st, changes.tripId)
      s1 == IF s0.exc # "none" THEN s0
            ELSE [s0 EXCEPT !.cu.metadata =
                    IF "metadata" \in DOMAIN changes
                    THEN Spread(s0.db.trip, changes.metadata) ELSE NULL]
      s2 == IF s1.exc = "none" /\ "metadata" \in DOMAIN changes
               /\ DOMAIN changes.metadata # {}
            THEN DbUpdateTrip(s1, changes.metadata) ELSE s1
      acts == IF "activities" \in DOMAIN changes THEN changes.activities
              ELSE [none |-> TRUE]
      s3 == AddActivities(s2, ListOf(acts, "added"))
      s4 == UpdateActivities(s3, ListOf(acts, "updated"))
      s5 == DeleteActivities(s4, changes.tripId, ListOf(acts, "deleted"))
      days == IF "days" \in DOMAIN changes THEN changes.days ELSE [none |-> TRUE]
      s6 == AddDays(s5, ListOf(days, "added"))
      s7 == UpdateDays(s6, ListOf(days, "updated"))
  IN DeleteDays(s7, changes.tripId, ListOf(days, "deleted"))

\* the store statements of saveGranularChanges, in program order, with the
\* invalidations that follow each delete
Persist(st, changes) ==
  LET s0 == VerifyOwnership(st, changes.tripId)
      s1 == IF s0.exc # "none" THEN s0
            ELSE [s0 EXCEPT !.cu.metadata =
                    IF "metadata" \in DOMAIN changes
                    THEN Spread(s0.db.trip, changes.metadata) ELSE NULL]
      s2 == IF s1.exc = "none" /\ "metadata" \in DOMAIN changes
               /\ DOMAIN changes.metadata # {}
            THEN DbUpdateTrip(s1, changes.metadata) ELSE s1
      days == IF "days" \in DOMAIN changes THEN changes.days ELSE [none |-> TRUE]
      s3 == AddDays(s2, ListOf(days, "added"))
      s4 == UpdateDays(s3, ListOf(days, "updated"))
      s5 == DeleteDays(s4, changes.tripId, ListOf(days, "deleted"))
      acts == IF "activities" \in DOMAIN changes THEN changes.activities
              ELSE [none |-> TRUE]
      s6 == AddActivities(s5, ListOf(acts, "added"))
      s7 == UpdateActivities(s6, ListOf(acts, "updated"))
  IN DeleteActivities(s7, changes.tripId, ListOf(acts, "deleted"))

\* saveGranularChanges: the context after the call; exc # "none" is the
\* error it throws
SaveGranularChanges(st, changes) ==
  LET s8 == Persist(st, changes)
      s9 == SmartSave(s8, changes.tripId, s8.cu)
  IN RebuildStructure(s9, changes)

\* saveActivityOnly: update the row, merge into the cached activity when
\* there is one (active-edit TTL), mark the trip stale
SaveActivityOnly(st, tripId, activityId, updates) ==
  LET s0 == VerifyUser(st, tripId)
      s1 == DbUpdateActivity(s0, activityId, updates)
      existing == GetActivity(s1, activityId)
      s2 == IF s1.exc = "none" /\ Truthy(existing)
            THEN SetActivity(s1, activityId, Spread(existing, updates), TRUE)
            ELSE s1
  IN MarkStale(s2, tripId)

\* saveDayMetadata: the same for one day
SaveDayMetadata(st, tripId, dayId, updates) ==
  LET s0 == VerifyUser(st, tripId)
      s1 == DbUpdateDay(s0, dayId, updates)
      existing == GetDay(s1, dayId)
      s2 == IF s1.exc = "none" /\ Truthy(existing)
            THEN SetDay(s1, dayId, Spread(existing, updates), TRUE)
            ELSE s1
  IN MarkStale(s2, tripId)

(***************************************************************************)
(* Inputs                                                                  *)
(***************************************************************************)
\* the callers: the owner of the trip, another signed-in user, nobody
Owner == [id |-> "owner"]
Callers == {Owner, [id |-> "other"], NULL}

\* the failures injected into one invocation: none, the KV requests of one
\* of the given key classes or of all of them, or one store statement
NoInjection == [fail |-> {}, dbFailAt |-> 0]
KvInjections(classes) ==
  {[fail |-> {c}, dbFailAt |-> 0] : c \in classes}
  \cup {[fail |-> classes, dbFailAt |-> 0]}
DbInjections(n) == {[fail |-> {}, dbFailAt |-> k] : k \in 1..n}

\* the editor's objects (app/editor/[id]/lib/types.ts)
ClientDay(id, dayNumber, title) ==
  [id |-> id, tripId |-> TripId, dayNumber |-> dayNumber, title |-> title,
   activities |-> <<>>]
ClientActivity(id, dayId, description, orderIndex) ==
  [id |-> id, dayId |-> dayId, description |-> description,
   orderIndex |-> orderIndex, gems |-> <<>>]

ExistingActivities(store) == {a \in ActivityIds : store.acts[a] # NULL}

\* the day part of a bundle with one entry, as the editor builds it (all
\* three lists present): a new day (addDay: provisional id, dayNumber =
\* number of days + 1), a retitled day, or a deleted day
DayEntries(store) ==
  {[added |-> <<ClientDay(TempDayId, Cardinality(DayIdsOf(store)) + 1, "T1")>>,
    updated |-> <<>>, deleted |-> <<>>] :
     x \in {y \in {store.nextDay} : y <= Len(DaySeq)}}
  \cup {[added |-> <<>>, updated |-> <<ClientDay(d, store.days[d].dayNumber, "T1")>>,
         deleted |-> <<>>] : d \in DayIdsOf(store)}
  \cup {[added |-> <<>>, updated |-> <<>>, deleted |-> <<d>>] : d \in DayIdsOf(store)}

\* the day part a direct caller sends for one retitled day: no other list
SparseDayEntries(store) ==
  {[updated |-> <<ClientDay(d, store.days[d].dayNumber, "T1")>>] : d \in DayIdsOf(store)}

\* the activity part of a bundle with one entry: a new activity
\* (addActivity: provisional id, orderIndex 0) of a day of the store or of
\* the new day, a redescribed activity, or a deleted activity
ActivityEntries(store) ==
  {[added |-> <<ClientActivity(TempActivityId, d, "X1", 0)>>,
    updated |-> <<>>, deleted |-> <<>>] :
     d \in {y \in DayIdsOf(store) \cup {TempDayId} : store.nextAct <= Len(ActivitySeq)}}
  \cup {[added |-> <<>>,
         updated |-> <<ClientActivity(a, store.acts[a].dayId, "X1",
                                      store.acts[a].orderIndex)>>,
         deleted |-> <<>>] : a \in ExistingActivities(store)}
  \cup {[added |-> <<>>, updated |-> <<>>, deleted |-> <<a>>] :
          a \in ExistingActivities(store)}

\* bundles that change both a day and an activity
PairBundles(store) ==
  {[tripId |-> TripId, days |-> d, activities |-> a] :
     d \in DayEntries(store), a \in ActivityEntries(store)}

\* the change bundles: the title of the trip, one day entry, one activity
\* entry, or one of each
Bundles(store) ==
  {[tripId |-> TripId, metadata |-> [title |-> "T1"]]}
  \cup {[tripId |-> TripId, days |-> d] :
          d \in DayEntries(store) \cup SparseDayEntries(store)}
  \cup {[tripId |-> TripId, activities |-> a] : a \in ActivityEntries(store)}
  \cup PairBundles(store)

(***************************************************************************)
(* The state machine: one action per handler invocation, the background    *)
(* repopulation started by a database fallback, and the passage of time.   *)
(* last records the invocation that completed last: the handler, its       *)
(* argument, caller and injected failures, the error it threw (exc), what  *)
(* it returned (ret) and, for a load, the path that produced it (src).     *)
(***************************************************************************)
\* neither the stepwise reader nor a stepwise writer has started
Idle ==
  [r |-> [pc |-> "idle", seen |-> [k \in Keys |-> NULL], payload |-> NULL,
          ret |-> NULL],
   w |-> [pc |-> "idle", kind |-> "none", existing |-> NULL, cu |-> NULL,
          structure |-> NULL],
   w2 |-> [pc |-> "idle", existing |-> NULL]]

Init ==
  /\ db = InitialStore
  /\ kv = [k \in Keys |-> NULL]
  /\ pending = {}
  /\ last = [op |-> "none", exc |-> "none", ret |-> NULL, src |-> "none",
             caller |-> NULL, fail |-> {}, dbFailAt |-> 0, arg |-> NULL]
  /\ ops = 0
  /\ saves = 0
  /\ ticks = 0
  /\ rw = Idle

Done(op, st, ret, src, arg) ==
  /\ db' = st.db
  /\ kv' = st.kv
  /\ pending' = st.pending
  /\ last' = [op |-> op, exc |-> st.exc, ret |-> ret, src |-> src,
              caller |-> st.user, fail |-> st.fail, dbFailAt |-> st.dbFailAt,
              arg |-> arg]
  /\ ops' = ops + 1
  /\ UNCHANGED <<ticks, rw>>

\* loadTripGranular(TripId)
LoadWith(budget, injections) ==
  /\ ops < budget
  /\ \E inj \in injections :
       LET r == LoadTripGranular(Ctx(db, kv, pending, NULL, inj.fail, inj.dbFailAt),
                                 TripId)
       IN Done("loadTripGranular", r.st, r.ret, r.src, NULL)
  /\ UNCHANGED saves

\* the populateGranularCache a database fallback left running
PopulateWith(injections) ==
  /\ \E trip \in pending, inj \in injections :
       LET st == PopulateGranularCache(
                   Ctx(db, kv, pending \ {trip}, NULL, inj.fail, 0), trip)
       IN /\ db' = st.db
          /\ kv' = st.kv
          /\ pending' = st.pending
          /\ last' = [op |-> "populateGranularCache", exc |-> st.exc, ret |-> NULL,
                      src |-> "none", caller |-> NULL, fail |-> st.fail,
                      dbFailAt |-> 0, arg |-> trip]
  /\ UNCHANGED <<ops, saves, ticks, rw>>

\* saveGranularChanges(changes)
SaveBundleWith(budget, inputs) ==
  /\ ops < budget
  /\ saves < MaxBundleSaves
  /\ \E in \in inputs :
       LET st == SaveGranularChanges(
                   Ctx(db, kv, pending, in.caller, in.inj.fail, in.inj.dbFailAt),
                   in.changes)
       IN Done("saveGranularChanges", st, NULL, "none", in.changes)
  /\ saves' = saves + 1

\* saveActivityOnly(TripId, activityId, { description })
SaveActivityWith(budget, inputs) ==
  /\ ops < budget
  /\ \E in \in inputs :
       LET st == SaveActivityOnly(
                   Ctx(db, kv, pending, in.caller, in.inj.fail, in.inj.dbFailAt),
                   TripId, in.id, in.updates)
       IN Done("saveActivityOnly", st, NULL, "none",
               [id |-> in.id, updates |-> in.updates])
  /\ UNCHANGED saves

\* saveDayMetadata(TripId, dayId, { title })
SaveDayWith(budget, inputs) ==
  /\ ops < budget
  /\ \E in \in inputs :
       LET st == SaveDayMetadata(
                   Ctx(db, kv, pending, in.caller, in.inj.fail, in.inj.dbFailAt),
                   TripId, in.id, in.updates)
       IN Done("saveDayMetadata", st, NULL, "none",
               [id |-> in.id, updates |-> in.updates])
  /\ UNCHANGED saves

\* invalidateTripCache(TripId)
ClearWith(budget, injections) ==
  /\ ops < budget
  /\ \E inj \in injections :
       LET st == ClearTripCache(Ctx(db, kv, pending, NULL, inj.fail, 0), TripId)
       IN Done("invalidateTripCache", st, NULL, "none", NULL)
  /\ UNCHANGED saves

\* the KV store ages every entry and drops the expired ones
Expire(cache, seconds) ==
  [k \in Keys |->
     IF cache[k] = NULL THEN NULL
     ELSE IF cache[k].ttl <= seconds THEN NULL
     ELSE [cache[k] EXCEPT !.ttl = @ - seconds]]

Tick ==
  /\ ticks < MaxTicks
  /\ kv' = Expire(kv, TickSeconds)
  /\ ticks' = ticks + 1
  /\ UNCHANGED <<db, pending, last, ops, saves, rw>>

(***************************************************************************)
(* Spec: the owner edits and reloads the trip; nothing fails.              *)
(***************************************************************************)
OwnerInputs(S, field, V) ==
  {[caller |-> Owner, id |-> x, updates |-> [f \in {field} |-> v], inj |-> NoInjection] :
     x \in S, v \in V}

Load == LoadWith(MaxOps, {NoInjection})
Populate == PopulateWith({NoInjection})
SaveBundle ==
  SaveBundleWith(MaxOps,
    {[caller |-> Owner, changes |-> c, inj |-> NoInjection] : c \in Bundles(db)})
SaveActivity ==
  SaveActivityWith(MaxOps, OwnerInputs(ExistingActivities(db), "description", Descriptions))
SaveDay == SaveDayWith(MaxOps, OwnerInputs(DayIdsOf(db), "title", Titles))
Clear == ClearWith(MaxOps, {NoInjection})

Next == Load \/ Populate \/ SaveBundle \/ SaveActivity \/ SaveDay \/ Clear \/ Tick

Spec == Init /\ [][Next]_vars

(***************************************************************************)
(* SpecFaults: the same handlers, called by anyone, with KV transport      *)
(* failures and store failures injected.                                   *)
(***************************************************************************)
FastPathInputs(S, field, v, classes) ==
  {[caller |-> c, id |-> x, updates |-> [f \in {field} |-> v], inj |-> i] :
     c \in Callers, x \in S,
     i \in {NoInjection} \cup KvInjections(classes) \cup DbInjections(1)}

\* the bundles of the owner under every injection, and every bundle from
\* the other callers
FaultBundleInputs(store) ==
  {[caller |-> Owner, changes |-> c, inj |-> i] :
     c \in PairBundles(store) \cup {[tripId |-> TripId, metadata |-> [title |-> "T1"]]},
     i \in {NoInjection}
           \cup KvInjections({"meta", "day", "activity", "structure", "stale"})
           \cup DbInjections(MaxDbFailAt)}
  \cup {[caller |-> c, changes |-> b, inj |-> NoInjection] :
          c \in Callers, b \in Bundles(store)}

LoadF ==
  LoadWith(MaxFaultOps,
           {NoInjection}
           \cup KvInjections({"stale", "full", "structure", "meta", "day", "activity"})
           \cup DbInjections(1))
PopulateF ==
  PopulateWith({NoInjection}
               \cup KvInjections({"meta", "day", "activity", "structure", "full", "stale"}))
SaveBundleF == SaveBundleWith(MaxFaultOps, FaultBundleInputs(db))
SaveActivityF ==
  SaveActivityWith(MaxFaultOps,
    FastPathInputs(ExistingActivities(db), "description", "X1", {"activity", "stale"}))
SaveDayF ==
  SaveDayWith(MaxFaultOps, FastPathInputs(DayIdsOf(db), "title", "T1", {"day", "stale"}))
ClearF ==
  ClearWith(MaxFaultOps,
            {NoInjection}
            \cup KvInjections({"structure", "meta", "full", "stale", "day", "activity"}))

NextFaults ==
  LoadF \/ PopulateF \/ SaveBundleF \/ SaveActivityF \/ SaveDayF \/ ClearF \/ Tick

SpecFaults == Init /\ [][NextFaults]_vars

(***************************************************************************)
(* SpecRW: after a warm-up of completed invocations, one loadTripGranular  *)
(* and one write by the owner run concurrently; every step is one awaited  *)
(* KV or store request (the requests a handler issues together form one    *)
(* step).  The writer is saveActivityOnly(a1, { description: "X2" }) or    *)
(* saveGranularChanges with a bundle that adds a day.                      *)
(***************************************************************************)
Here == Ctx(db, kv, pending, Owner, {}, 0)
Seen == Ctx(db, rw.r.seen, pending, Owner, {}, 0)

WriterUpdates == [description |-> "X2"]
WriterBundle ==
  [tripId |-> TripId,
   days |-> [added |-> <<ClientDay(TempDayId, Cardinality(DayIdsOf(db)) + 1, "T1")>>,
             updated |-> <<>>, deleted |-> <<>>]]

Copy(seen, keys) == [k \in Keys |-> IF k \in keys THEN kv[k] ELSE seen[k]]

WarmLoad == rw = Idle /\ LoadWith(MaxWarmOps, {NoInjection})
WarmPopulate == rw = Idle /\ PopulateWith({NoInjection})
WarmSave ==
  /\ rw = Idle
  /\ SaveActivityWith(MaxWarmOps, OwnerInputs({"a1"}, "description", {"X1"}))

RwStep(newRw, newKv, newDb) ==
  /\ rw' = newRw
  /\ kv' = newKv
  /\ db' = newDb
  /\ UNCHANGED <<pending, last, ops, saves, ticks>>

\* loadTripGranular is called
RStart ==
  /\ rw.r.pc = "idle"
  /\ RwStep([rw EXCEPT !.r.pc = "staleCheck"], kv, db)

\* getFullTrip: await getKV(stale)
RStaleCheck ==
  /\ rw.r.pc = "staleCheck"
  /\ RwStep([rw EXCEPT !.r.pc = IF GetKV(Here, KeyStale(TripId)).value = StrTrue
                                 THEN "wave1" ELSE "full"], kv, db)

\* getFullTrip: await getKV(full); a hit is returned
RFull ==
  /\ rw.r.pc = "full"
  /\ LET hit == GetFullTripNoStaleCheck(Here, TripId)
     IN RwStep(IF Truthy(hit) THEN [rw EXCEPT !.r.pc = "done", !.r.ret = hit]
               ELSE [rw EXCEPT !.r.pc = "wave1"], kv, db)

\* assembleFromCache: await Promise.all([getStructure, getMetadata])
RWave1 ==
  /\ rw.r.pc = "wave1"
  /\ LET seen == Copy(rw.r.seen, {KeyStructure(TripId), KeyMetadata(TripId)})
         structure == GetStructure(Here, TripId)
     IN RwStep([rw EXCEPT !.r.seen = seen,
                          !.r.pc = IF structure = NULL \/ GetMetadata(Here, TripId) = NULL
                                      \/ "dayIds" \notin DOMAIN structure
                                   THEN "db" ELSE "wave2"], kv, db)

\* assembleFromCache: await getDays(structure.dayIds)
RWave2 ==
  /\ rw.r.pc = "wave2"
  /\ LET structure == GetStructure(Seen, TripId)
         seen == Copy(rw.r.seen, {KeyDay(d) : d \in SetOf(structure.dayIds)})
     IN RwStep([rw EXCEPT !.r.seen = seen,
                          !.r.pc = IF AllDaysResolved(structure,
                                                      GetDays(Here, structure.dayIds))
                                   THEN "wave3" ELSE "db"], kv, db)

\* assembleFromCache: await getActivities(...); the assembly is returned
RWave3 ==
  /\ rw.r.pc = "wave3"
  /\ LET structure == GetStructure(Seen, TripId)
         seen == Copy(rw.r.seen, {KeyActivity(a) : a \in DOMAIN structure.activityMap})
         assembled == AssembleFromCache(Ctx(db, seen, pending, Owner, {}, 0), TripId)
     IN RwStep([rw EXCEPT !.r.seen = seen, !.r.pc = "setFull",
                          !.r.payload = assembled, !.r.ret = assembled], kv, db)

\* await loadFromDatabase; the trip is returned and populateGranularCache
\* is left running
RDb ==
  /\ rw.r.pc = "db"
  /\ LET dbTrip == LoadFromDatabase(db, TripId)
     IN RwStep([rw EXCEPT !.r.pc = "populate", !.r.payload = dbTrip,
                          !.r.ret = dbTrip], kv, db)

\* populateGranularCache: the requests for the metadata, the days, the
\* activities and the structure
RPopulate ==
  /\ rw.r.pc = "populate"
  /\ LET trip == rw.r.payload
         s1 == SetMetadata(Here, trip.id, MetadataOf(trip))
         s2 == PopulateDays(s1, trip.days)
         s3 == SetStructure(s2, trip.id, StructureOf(trip))
     IN RwStep([rw EXCEPT !.r.pc = "setFull"], s3.kv, db)

\* setFullTrip: await setKV(full)
RSetFull ==
  /\ rw.r.pc = "setFull"
  /\ RwStep([rw EXCEPT !.r.pc = "setStale"],
            SetKV(Here, KeyFullTrip(TripId), JSONStringify(rw.r.payload),
                  TTL_FULL_TRIP).kv, db)

\* setFullTrip: await setKV(stale, 'false')
RSetStale ==
  /\ rw.r.pc = "setStale"
  /\ RwStep([rw EXCEPT !.r.pc = "done"],
            SetKV(Here, KeyStale(TripId), StrFalse, TTL_FULL_TRIP).kv, db)

\* a write is called
WStart ==
  /\ rw.w.pc = "idle"
  /\ \E kind \in {"activity", "bundle"} :
       RwStep([rw EXCEPT !.w.pc = "db", !.w.kind = kind], kv, db)

\* saveActivityOnly: await db.update(activities)
WDbActivity ==
  /\ rw.w.pc = "db" /\ rw.w.kind = "activity"
  /\ RwStep([rw EXCEPT !.w.pc = "get"], kv,
            DbUpdateActivity(VerifyUser(Here, TripId), "a1", WriterUpdates).db)

\* saveActivityOnly: await getActivity
WGet ==
  /\ rw.w.pc = "get"
  /\ LET existing == GetActivity(Here, "a1")
     IN RwStep([rw EXCEPT !.w.existing = existing,
                          !.w.pc = IF Truthy(existing) THEN "set" ELSE "mark"], kv, db)

\* saveActivityOnly: await setActivity(merged, true)
WSet ==
  /\ rw.w.pc = "set"
  /\ RwStep([rw EXCEPT !.w.pc = "mark"],
            SetActivity(Here, "a1", Spread(rw.w.existing, WriterUpdates), TRUE).kv, db)

\* saveActivityOnly: await markStale
WMark ==
  /\ rw.w.pc = "mark"
  /\ RwStep([rw EXCEPT !.w.pc = "done"], MarkStale(Here, TripId).kv, db)

\* saveGranularChanges: the ownership check and the store statements
WPersist ==
  /\ rw.w.pc = "db" /\ rw.w.kind = "bundle"
  /\ db.nextDay <= Len(DaySeq)
  /\ LET st == Persist(Here, WriterBundle)
     IN RwStep([rw EXCEPT !.w.pc = "smartSave", !.w.cu = st.cu], st.kv, st.db)

\* saveGranularChanges: await smartSave (its sets and markStale)
WSmartSave ==
  /\ rw.w.pc = "smartSave"
  /\ RwStep([rw EXCEPT !.w.pc = "build"], SmartSave(Here, TripId, rw.w.cu).kv, db)

\* saveGranularChanges: await buildTripStructure
WBuild ==
  /\ rw.w.pc = "build"
  /\ RwStep([rw EXCEPT !.w.pc = "setStructure",
                       !.w.structure = BuildTripStructure(Here, TripId).ret], kv, db)

\* saveGranularChanges: await setStructure
WSetStructure ==
  /\ rw.w.pc = "setStructure"
  /\ RwStep([rw EXCEPT !.w.pc = "done"],
            IF rw.w.structure # NULL
            THEN SetStructure(Here, TripId, rw.w.structure).kv ELSE kv, db)

NextRW ==
  \/ WarmLoad \/ WarmPopulate \/ WarmSave
  \/ RStart \/ RStaleCheck \/ RFull \/ RWave1 \/ RWave2 \/ RWave3 \/ RDb
  \/ RPopulate \/ RSetFull \/ RSetStale
  \/ WStart \/ WDbActivity \/ WGet \/ WSet \/ WMark
  \/ WPersist \/ WSmartSave \/ WBuild \/ WSetStructure

SpecRW == Init /\ [][NextRW]_vars

(***************************************************************************)
(* SpecWW: after a load has warmed the cache, two writes by the owner run  *)
(* concurrently, request by request: the writer of SpecRW and a second     *)
(* saveActivityOnly(a1, { description: "X1" }); when both have returned,   *)
(* the trip is loaded.                                                     *)
(***************************************************************************)
SecondUpdates == [description |-> "X1"]

\* the second saveActivityOnly is called
VStart ==
  /\ rw.w2.pc = "idle"
  /\ RwStep([rw EXCEPT !.w2.pc = "db"], kv, db)

\* saveActivityOnly: await db.update(activities)
VDb ==
  /\ rw.w2.pc = "db"
  /\ RwStep([rw EXCEPT !.w2.pc = "get"], kv,
            DbUpdateActivity(VerifyUser(Here, TripId), "a1", SecondUpdates).db)

\* saveActivityOnly: await getActivity
VGet ==
  /\ rw.w2.pc = "get"
  /\ LET existing == GetActivity(Here, "a1")
     IN RwStep([rw EXCEPT !.w2.existing = existing,
                          !.w2.pc = IF Truthy(existing) THEN "set" ELSE "mark"], kv, db)

\* saveActivityOnly: await setActivity(merged, true)
VSet ==
  /\ rw.w2.pc = "set"
  /\ RwStep([rw EXCEPT !.w2.pc = "mark"],
            SetActivity(Here, "a1", Spread(rw.w2.existing, SecondUpdates), TRUE).kv, db)

\* saveActivityOnly: await markStale
VMark ==
  /\ rw.w2.pc = "mark"
  /\ RwStep([rw EXCEPT !.w2.pc = "done"], MarkStale(Here, TripId).kv, db)

BothWritersDone == rw.w.pc = "done" /\ rw.w2.pc = "done"

\* loadTripGranular once both writes have returned
LoadAfterWrites ==
  /\ BothWritersDone
  /\ rw.r.pc = "idle"
  /\ LoadWith(MaxWarmOps + 1, {NoInjection})

NextWW ==
  \/ WarmLoad \/ WarmPopulate
  \/ WStart \/ WDbActivity \/ WGet \/ WSet \/ WMark
  \/ WPersist \/ WSmartSave \/ WBuild \/ WSetStructure
  \/ VStart \/ VDb \/ VGet \/ VSet \/ VMark
  \/ LoadAfterWrites

SpecWW == Init /\ [][NextWW]_vars

(***************************************************************************)
(* Observations used by the properties                                     *)
(***************************************************************************)
\* a context in which nothing fails, for reading the current state
Observer == Ctx(db, kv, pending, NULL, {}, 0)

WriteOps == {"saveGranularChanges", "saveActivityOnly", "saveDayMetadata"}

\* the last invocation was a component write that returned success
WriteCompleted == last.op \in WriteOps /\ last.exc = "none"

\* the whole-document payload is in the KV store, its TTL not elapsed
PayloadCached ==
  /\ kv[KeyFullTrip(TripId)] # NULL
  /\ "id" \in DOMAIN JSONParse(kv[KeyFullTrip(TripId)].value)

WriterMarkedStale == rw.w.pc \in {"build", "setStructure", "done"}
StoreDays == JSONParse(JSONStringify(LoadFromDatabase(db, TripId))).days

\* C2: in every interleaving of one loadTripGranular with one concurrent
\* write, once the writer has marked the trip stale, getFullTrip returns
\* nothing or a payload whose days are those of the store after the write,
\* never a payload derived from the state before the write.
C2_NoRevertToPreWritePayload ==
  WriterMarkedStale =>
    LET full == GetFullTrip(Observer, TripId)
    IN full = NULL \/ full.days = StoreDays

(***************************************************************************)
(* C3                                                                      *)
(***************************************************************************)
\* the context of the loadTripGranular that this step completes
Loading == Ctx(db, kv, pending, NULL, last'.fail, last'.dbFailAt)
LoadStep == last'.op = "loadTripGranular" /\ ops' = ops + 1

\* the structure lists more days than resolve from the component cache
FewerDaysResolve(st) ==
  LET structure == GetStructure(st, TripId)
  IN /\ structure # NULL
     /\ "dayIds" \in DOMAIN structure
     /\ Cardinality({d \in SetOf(structure.dayIds) : GetDay(st, d) # NULL})
          < Len(structure.dayIds)

PartialMiss(st) ==
  \/ GetMetadata(st, TripId) = NULL
  \/ GetStructure(st, TripId) = NULL
  \/ FewerDaysResolve(st)

FellBackToStore ==
  last'.src = "db" /\ last'.ret = LoadFromDatabase(db, TripId)

\* C3 as stated: whenever the metadata is absent, the structure is absent or
\* fewer days resolve than the structure lists, assembleFromCache returns
\* null and loadTripGranular, its store read not failing, returns the trip
\* read from the store.
C3_FallbackOnAnyPartialMiss ==
  [][(LoadStep /\ PartialMiss(Loading) /\ last'.dbFailAt = 0)
       => (AssembleFromCache(Loading, TripId) = NULL /\ FellBackToStore)]_vars

\* C3: the same, for a loadTripGranular whose whole-document read misses.
C3_FallbackOnPartialMiss ==
  [][(LoadStep /\ PartialMiss(Loading) /\ last'.dbFailAt = 0
        /\ ~Truthy(GetFullTrip(Loading, TripId)))
       => (AssembleFromCache(Loading, TripId) = NULL /\ FellBackToStore)]_vars

\* a load fell back to the store although metadata and structure were
\* cached, because a day of the structure did not resolve
C3_Witness ==
  LET st == Ctx(db, kv, pending, NULL, last.fail, 0)
  IN /\ last.op = "loadTripGranular"
     /\ last.src = "db"
     /\ last.ret = LoadFromDatabase(db, TripId)
     /\ GetMetadata(st, TripId) # NULL
     /\ FewerDaysResolve(st)

(***************************************************************************)
(* C4                                                                      *)
(***************************************************************************)
\* the activity ids the structure lists for a day
Listed(structure, dayId) ==
  IF dayId \in DOMAIN structure.dayMap THEN structure.dayMap[dayId].activityIds
  ELSE <<>>

\* the cached activities of a day that resolve, in the order of the structure
ResolvedItems(st, structure, dayId) ==
  LET kept == SelectSeq(Listed(structure, dayId), LAMBDA a : GetActivity(st, a) # NULL)
  IN [j \in 1..Len(kept) |-> GetActivity(st, kept[j])]

\* metadata, structure and every day of the structure resolve
SectionsResolve(st) ==
  LET structure == GetStructure(st, TripId)
  IN /\ structure # NULL
     /\ GetMetadata(st, TripId) # NULL
     /\ "dayIds" \in DOMAIN structure
     /\ \A i \in 1..Len(structure.dayIds) : GetDay(st, structure.dayIds[i]) # NULL

\* C4: when metadata, structure and every day resolve, assembleFromCache
\* succeeds whatever activities are missing: every day carries exactly its
\* resolved activities in structure order, and a loadTripGranular that
\* misses the whole-document entry returns this assembly without reading
\* the store and without an error.
C4_DegradedLeafResolution ==
  SectionsResolve(Observer) =>
    LET structure == GetStructure(Observer, TripId)
        assembled == AssembleFromCache(Observer, TripId)
        loaded == LoadTripGranular(Observer, TripId)
    IN /\ assembled # NULL
       /\ Len(assembled.days) = Len(structure.dayIds)
       /\ \A i \in 1..Len(structure.dayIds) :
            assembled.days[i].activities
              = ResolvedItems(Observer, structure, structure.dayIds[i])
       /\ ~Truthy(GetFullTrip(Observer, TripId))
            => (loaded.src = "assembled" /\ loaded.ret = assembled
                /\ loaded.st.exc = "none")

\* a loadTripGranular returned an assembly in which a day lacks one listed
\* activity whose sibling resolved
C4_Witness ==
  /\ last.op = "loadTripGranular"
  /\ last.src = "assembled"
  /\ last.exc = "none"
  /\ SectionsResolve(Observer)
  /\ LET structure == GetStructure(Observer, TripId)
     IN \E i \in 1..Len(structure.dayIds) :
          LET listed == Listed(structure, structure.dayIds[i])
          IN /\ \E j \in 1..Len(listed) : GetActivity(Observer, listed[j]) = NULL
             /\ \E j \in 1..Len(listed) : GetActivity(Observer, listed[j]) # NULL
             /\ Len(last.ret.days[i].activities) = Len(listed) - 1

(***************************************************************************)
(* C5                                                                      *)
(***************************************************************************)
\* the fields of an activity, a day and a document that the store defines
ItemView(a) ==
  IF {"id", "description", "orderIndex"} \subseteq DOMAIN a
  THEN [id |-> a.id, description |-> a.description, orderIndex |-> a.orderIndex]
  ELSE a
SectionView(d) ==
  IF {"id", "dayNumber", "title", "activities"} \subseteq DOMAIN d
  THEN [id |-> d.id, dayNumber |-> d.dayNumber, title |-> d.title,
        activities |-> [j \in 1..Len(d.activities) |-> ItemView(d.activities[j])]]
  ELSE d
DocView(trip) == [i \in 1..Len(trip.days) |-> SectionView(trip.days[i])]

\* C5: while no cache entry has expired, whenever assembleFromCache succeeds
\* its days and activities are those of loadFromDatabase at that moment:
\* same order, same field values.
C5_AssemblyEqualsStore ==
  LET assembled == AssembleFromCache(Observer, TripId)
  IN (ticks = 0 /\ assembled # NULL)
       => DocView(assembled) = DocView(LoadFromDatabase(db, TripId))

(***************************************************************************)
(* C6                                                                      *)
(***************************************************************************)
\* this step completes a saveGranularChanges that threw on a store statement
BundleFailedInStore ==
  last'.op = "saveGranularChanges" /\ ops' = ops + 1 /\ last'.exc = "db"

\* C6: a saveGranularChanges one of whose store statements fails leaves
\* every cache entry as it was (value and remaining lifetime).
C6_NoCacheMutationOnFailedWrite ==
  [][BundleFailedInStore => kv' = kv]_vars

(***************************************************************************)
(* C7                                                                      *)
(***************************************************************************)
\* this step completes a write called by someone who does not own the trip
WriteByNonOwner ==
  /\ last'.op \in WriteOps
  /\ ops' = ops + 1
  /\ (last'.caller = NULL \/ last'.caller.id # db.trip.creatorId)

\* C7: a write called by a non-owner throws and changes neither the store
\* nor the cache.
C7_NonOwnerRejected ==
  [][WriteByNonOwner => (last'.exc # "none" /\ db' = db /\ kv' = kv)]_vars

(***************************************************************************)
(* C8                                                                      *)
(***************************************************************************)
\* C8: a saveGranularChanges that returns an error because a store statement
\* failed leaves the store without any change of its bundle.
C8_FailedBundleLeavesStore ==
  [][BundleFailedInStore => db' = db]_vars

(***************************************************************************)
(* C9                                                                      *)
(***************************************************************************)
\* a trip object: its metadata and its list of days
IsDocument(v) ==
  /\ v # NULL
  /\ {"id", "title", "creatorId", "days"} \subseteq DOMAIN v

\* C9: a loadTripGranular whose store read does not fail returns the trip,
\* with its metadata and days, whatever the cache holds and whichever KV
\* requests fail; never null and never a placeholder.
C9_LoadReturnsDocument ==
  (last.op = "loadTripGranular" /\ last.dbFailAt = 0)
    => (IsDocument(last.ret) /\ last.ret.id = TripId)

(***************************************************************************)
(* C10                                                                     *)
(***************************************************************************)
Handlers == WriteOps \cup {"loadTripGranular"}

\* the error thrown by the handler this step completes, had it run from the
\* same state with the same caller, argument and store failure but with the
\* KV requests of failset failing
HandlerExc(failset) ==
  LET st == Ctx(db, kv, pending, last'.caller, failset, last'.dbFailAt)
  IN CASE last'.op = "loadTripGranular" -> LoadTripGranular(st, TripId).st.exc
       [] last'.op = "saveGranularChanges" -> SaveGranularChanges(st, last'.arg).exc
       [] last'.op = "saveActivityOnly" ->
            SaveActivityOnly(st, TripId, last'.arg.id, last'.arg.updates).exc
       [] last'.op = "saveDayMetadata" ->
            SaveDayMetadata(st, TripId, last'.arg.id, last'.arg.updates).exc
       [] OTHER -> "none"

\* with the transport failing for every key, each get returns null and each
\* set, markStale and invalidateComponent returns normally
TransportFailureContained(store, cache) ==
  LET st == Ctx(store, cache, {}, Owner, KeyClasses, 0)
      day == [id |-> "d1", title |-> "T0"]
      activity == [id |-> "a1", description |-> "X0"]
  IN /\ GetMetadata(st, TripId) = NULL
     /\ GetStructure(st, TripId) = NULL
     /\ GetFullTrip(st, TripId) = NULL
     /\ \A d \in DayIds : GetDay(st, d) = NULL
     /\ \A a \in ActivityIds : GetActivity(st, a) = NULL
     /\ GetDays(st, DaySeq) = <<>>
     /\ GetActivities(st, ActivityIds) = <<>>
     /\ SetMetadata(st, TripId, [id |-> TripId]).exc = "none"
     /\ SetDay(st, "d1", day, FALSE).exc = "none"
     /\ SetActivity(st, "a1", activity, TRUE).exc = "none"
     /\ SetStructure(st, TripId, [dayIds |-> <<>>]).exc = "none"
     /\ SetFullTrip(st, TripId, [id |-> TripId, days |-> <<>>]).exc = "none"
     /\ MarkStale(st, TripId).exc = "none"
     /\ InvalidateComponent(st, TripId, "day", "d1").exc = "none"
     /\ InvalidateComponent(st, TripId, "activity", "a1").exc = "none"

\* C10: in every state, each get answers null and each set, markStale and
\* invalidateComponent returns normally when the transport fails; and every
\* loadTripGranular, saveGranularChanges, saveActivityOnly and
\* saveDayMetadata ends as it would have ended without the transport
\* failures: it never throws a transport error, it throws exactly when the
\* failure-free run throws, and a load whose store read succeeds returns a
\* value.
C10_TransportFailureNeverPropagates ==
  [][/\ TransportFailureContained(db', kv')
     /\ (last'.op \in Handlers /\ ops' = ops + 1)
          => /\ last'.exc # "kv"
             /\ last'.exc = HandlerExc({})
             /\ (last'.op = "loadTripGranular" /\ last'.dbFailAt = 0)
                  => last'.ret # NULL]_vars

\* a write returned success although its markStale request failed in
\* transport and the marker was not written
C10_Witness ==
  /\ last.op \in WriteOps
  /\ last.exc = "none"
  /\ "stale" \in last.fail
  /\ GetKV(Observer, KeyStale(TripId)).value # StrTrue

(***************************************************************************)
(* C11                                                                     *)
(***************************************************************************)
\* this step completes a loadTripGranular that found nothing in the cache
\* and whose store read failed
LoadFailedInStore ==
  /\ LoadStep
  /\ last'.dbFailAt = 1
  /\ ~Truthy(GetFullTrip(Loading, TripId))
  /\ ~Truthy(AssembleFromCache(Loading, TripId))

\* this step completes a saveGranularChanges of the owner whose ownership
\* query or first persistence statement failed
BundleStatementFailed ==
  /\ last'.op = "saveGranularChanges"
  /\ ops' = ops + 1
  /\ last'.caller = Owner
  /\ last'.dbFailAt \in {1, 2}

\* C11: a loadTripGranular whose store read fails and a saveGranularChanges
\* one of whose store statements fails both end with an error thrown to the
\* caller; the load does not return null and the save does not return
\* success.
C11_StoreFailurePropagates ==
  [][(LoadFailedInStore \/ BundleStatementFailed) => last'.exc = "db"]_vars

(***************************************************************************)
(* C12                                                                     *)
(***************************************************************************)
\* the entries of one list of a bundle
BundleList(changes, kind, list) ==
  IF kind \in DOMAIN changes THEN ListOf(changes[kind], list) ELSE <<>>

\* this step completes a saveGranularChanges that returned success
BundleSucceeded ==
  last'.op = "saveGranularChanges" /\ ops' = ops + 1 /\ last'.exc = "none"

\* every updated activity and day of the bundle reads back from the cache
\* as it was sent
UpdatedEntriesRefreshed(cache, changes) ==
  LET st == Ctx(db, cache, {}, NULL, {}, 0)
  IN /\ \A i \in 1..Len(BundleList(changes, "activities", "updated")) :
          LET activity == BundleList(changes, "activities", "updated")[i]
          IN GetActivity(st, activity.id) = activity
     /\ \A i \in 1..Len(BundleList(changes, "days", "updated")) :
          LET day == BundleList(changes, "days", "updated")[i]
          IN GetDay(st, day.id) = day

C13_LoadAfterConcurrentWrites ==
  [][(BothWritersDone /\ LoadStep)
       => (IsDocument(last'.ret)
           /\ DocView(last'.ret) = DocView(LoadFromDatabase(db, TripId)))]_vars

(***************************************************************************)
(* C14                                                                     *)
(***************************************************************************)
\* the dayNumbers of the trip's days in the store are exactly 1..N
PositionsDense ==
  {db.days[d].dayNumber : d \in DayIdsOf(db)} = 1..Cardinality(DayIdsOf(db))

\* C14: after a saveGranularChanges that deleted a day has succeeded, the
\* remaining days of the store are numbered 1..N without gaps.
C14_PositionsDenseAfterDelete ==
  (last.op = "saveGranularChanges" /\ last.exc = "none"
     /\ BundleList(last.arg, "days", "deleted") # <<>>)
    => PositionsDense

(***************************************************************************)
(* C15                                                                     *)
(***************************************************************************)
\* the context after invalidateComponent(TripId, kind, id) called in this
\* state, no request failing
AfterInvalidate(componentType, componentId) ==
  InvalidateComponent(Observer, TripId, componentType, componentId)

\* C15: in every state, once invalidateComponent(trip, kind, id) has
\* completed, getDay(id) / getActivity(id) returns null: neither the
\* fragment cached before nor a placeholder.
C15_InvalidatedReadsAbsent ==
  /\ \A d \in DayIds : GetDay(AfterInvalidate("day", d), d) = NULL
  /\ \A a \in ActivityIds : GetActivity(AfterInvalidate("activity", a), a) = NULL

(***************************************************************************)
(* C16                                                                     *)
(***************************************************************************)
\* the trips a caller re-caches in this state: the one read from the store
\* and the one assembled from the component cache
Recacheable ==
  {LoadFromDatabase(db, TripId)}
  \cup {t \in {AssembleFromCache(Observer, TripId)} : t # NULL}

\* getFullTrip right after setFullTrip(TripId, trip), no request failing
ReadAfterRecache(trip) ==
  GetFullTrip(SetFullTrip(Observer, TripId, trip), TripId)

MarkerValue == GetKV(Observer, KeyStale(TripId)).value

\* C16: in every state, whatever the marker holds, a getFullTrip right after
\* setFullTrip(D, d) returns d's days; and so does a getFullTrip right after
\* populateGranularCache of the trip read from the store.
C16_RecacheMakesFresh ==
  /\ \A trip \in Recacheable :
       /\ ReadAfterRecache(trip) # NULL
       /\ ReadAfterRecache(trip).days = trip.days
       /\ \A f \in DOMAIN trip \ {"createdAt"} :
            f \in DOMAIN ReadAfterRecache(trip) /\ ReadAfterRecache(trip)[f] = trip[f]
  /\ LET dbTrip == LoadFromDatabase(db, TripId)
         full == GetFullTrip(PopulateGranularCache(Observer, dbTrip), TripId)
     IN full # NULL /\ full.days = dbTrip.days

\* the trip is marked stale with a payload cached (getFullTrip misses), and
\* re-caching the trip of the store makes getFullTrip return its days
C16_Witness ==
  /\ MarkerValue = StrTrue
  /\ PayloadCached
  /\ GetFullTrip(Observer, TripId) = NULL
  /\ ReadAfterRecache(LoadFromDatabase(db, TripId)).days
       = LoadFromDatabase(db, TripId).days

(***************************************************************************)
(* C17                                                                     *)
(***************************************************************************)
\* the fragments of the trip of the store, as populateGranularCache has them
StoreTrip == LoadFromDatabase(db, TripId)
StoreDaysOf == {StoreTrip.days[i] : i \in 1..Len(StoreTrip.days)}
StoreActivitiesOf ==
  UNION {{day.activities[j] : j \in 1..Len(day.activities)} : day \in StoreDaysOf}

\* C17: in every state, for the metadata, each day, each activity and the
\* structure of the trip, get right after set returns the value that was
\* set, field for field, a Date field still a Date.
C17_FragmentRoundTrip ==
  /\ GetMetadata(SetMetadata(Observer, TripId, MetadataOf(StoreTrip)), TripId)
       = MetadataOf(StoreTrip)
  /\ \A day \in StoreDaysOf : GetDay(SetDay(Observer, day.id, day, FALSE), day.id) = day
  /\ \A activity \in StoreActivitiesOf :
       GetActivity(SetActivity(Observer, activity.id, activity, TRUE), activity.id)
         = activity
  /\ GetStructure(SetStructure(Observer, TripId, StructureOf(StoreTrip)), TripId)
       = StructureOf(StoreTrip)

(***************************************************************************)
(* C18                                                                     *)
(***************************************************************************)
MarkedOnce == MarkStale(Observer, TripId)
MarkedTwice == MarkStale(MarkedOnce, TripId)

StructuralBundle(changes) ==
  \E kind \in {"days", "activities"}, list \in {"added", "deleted"} :
    BundleList(changes, kind, list) # <<>>

\* the cached structure lists the days of the store in dayNumber order and,
\* for each day, its activities in orderIndex order
StructureMatchesStore(store, cache) ==
  LET structure == GetStructure(Ctx(store, cache, {}, NULL, {}, 0), TripId)
  IN /\ structure # NULL
     /\ {"dayIds", "dayMap"} \subseteq DOMAIN structure
     /\ structure.dayIds = OrderedDayIds(store)
     /\ \A d \in DayIdsOf(store) :
          /\ d \in DOMAIN structure.dayMap
          /\ structure.dayMap[d].activityIds = OrderedActivityIds(store, d)

\* C19: when a saveGranularChanges whose bundle adds or deletes a day or an
\* activity has succeeded, the cached structure equals the id graph of the
\* store.
C19_StructureRebuiltAfterStructuralWrite ==
  [][(BundleSucceeded /\ StructuralBundle(last'.arg))
       => StructureMatchesStore(db', kv')]_vars

(***************************************************************************)
(* C20                                                                     *)
(***************************************************************************)
\* this step completes a write that changed content only: a fast path, or a
\* saveGranularChanges whose added and deleted lists are empty or missing
PureContentEdit ==
  /\ ops' = ops + 1
  /\ last'.exc = "none"
  /\ \/ last'.op \in {"saveActivityOnly", "saveDayMetadata"}
     \/ last'.op = "saveGranularChanges" /\ ~StructuralBundle(last'.arg)

\* C20: a write that changes content only leaves the structure entry of the
\* KV store as it was.
C20_ContentEditLeavesStructure ==
  [][PureContentEdit => kv'[KeyStructure(TripId)] = kv[KeyStructure(TripId)]]_vars

(***************************************************************************)
(* C21                                                                     *)
(***************************************************************************)
\* the day and activity ids the cached structure names
StructureDayIds(structure) ==
  SetOf(structure.dayIds) \cup DOMAIN structure.dayMap
StructureActivityIds(structure) ==
  DOMAIN structure.activityMap
  \cup UNION {SetOf(structure.dayMap[d].activityIds) : d \in DOMAIN structure.dayMap}

\* C21: in every state, a cached structure names only days and activities
\* that exist in the store.
C21_StructureWithinStore ==
  LET structure == GetStructure(Observer, TripId)
  IN (structure # NULL /\ "dayIds" \in DOMAIN structure)
       => /\ StructureDayIds(structure) \subseteq DayIdsOf(db)
          /\ StructureActivityIds(structure) \subseteq ExistingActivities(db)

(***************************************************************************)
(* C22                                                                     *)
(***************************************************************************)
\* this step completes a saveGranularChanges of the owner whose bundle adds
\* a day under a provisional id and an activity of that day
ProvisionalBundleSaved ==
  /\ last'.op = "saveGranularChanges"
  /\ ops' = ops + 1
  /\ last'.caller = Owner
  /\ \E i \in 1..Len(BundleList(last'.arg, "days", "added")) :
       BundleList(last'.arg, "days", "added")[i].id = TempDayId
  /\ \E i \in 1..Len(BundleList(last'.arg, "activities", "added")) :
       BundleList(last'.arg, "activities", "added")[i].dayId = TempDayId

\* C22: a saveGranularChanges that adds a day under a provisional id
\* together with an activity of that day succeeds, and the activity is
\* stored and cached under the id the store gave the day.
C22_ProvisionalIdsRemapped ==
  [][ProvisionalBundleSaved
       => /\ last'.exc = "none"
          /\ \E a \in ExistingActivities(db') \ ExistingActivities(db) :
               /\ db'.acts[a].dayId \in DayIdsOf(db') \ DayIdsOf(db)
               /\ kv'[KeyActivity(a)] # NULL
               /\ JSONParse(kv'[KeyActivity(a)].value).dayId = db'.acts[a].dayId]_vars

(***************************************************************************)
(* C23                                                                     *)
(***************************************************************************)
\* the activities that belong to a day the bundle deletes, before the step
ActivitiesOfDeletedDays ==
  {a \in ExistingActivities(db) :
     db.acts[a].dayId \in SetOf(BundleList(last'.arg, "days", "deleted"))}

\* C23: after a successful saveGranularChanges that deletes a day, every
\* activity of that day is gone from the store and getActivity returns
\* null for it.
C23_CascadeEviction ==
  [][(BundleSucceeded /\ ActivitiesOfDeletedDays # {})
       => \A a \in ActivitiesOfDeletedDays :
            /\ a \notin ExistingActivities(db')
            /\ GetActivity(Ctx(db', kv', pending', NULL, {}, 0), a) = NULL]_vars

(***************************************************************************)
(* C24                                                                     *)
(***************************************************************************)
\* the cache entry of a key holds the updates and was written with the
\* active-edit TTL
HoldsActiveEdit(cache, key, updates) ==
  /\ cache[key] # NULL
  /\ cache[key].ttl = TTL_ACTIVE_EDIT
  /\ \A f \in DOMAIN updates :
       /\ f \in DOMAIN JSONParse(cache[key].value)
       /\ JSONParse(cache[key].value)[f] = updates[f]

FastPathSucceeded(op) ==
  last'.op = op /\ ops' = ops + 1 /\ last'.exc = "none"

\* C24: after a successful saveActivityOnly or saveDayMetadata the store
\* row holds the update, the fragment's cache entry holds it with the
\* active-edit TTL, and the trip is marked stale, whether or not the
\* fragment was cached before.
C24_FastPathWritesThrough ==
  [][/\ FastPathSucceeded("saveActivityOnly")
        => /\ \A f \in DOMAIN last'.arg.updates :
                db'.acts[last'.arg.id][f] = last'.arg.updates[f]
           /\ HoldsActiveEdit(kv', KeyActivity(last'.arg.id), last'.arg.updates)
           /\ kv'[KeyStale(TripId)] # NULL /\ kv'[KeyStale(TripId)].value = StrTrue
     /\ FastPathSucceeded("saveDayMetadata")
        => /\ \A f \in DOMAIN last'.arg.updates :
                db'.days[last'.arg.id][f] = last'.arg.updates[f]
           /\ HoldsActiveEdit(kv', KeyDay(last'.arg.id), last'.arg.updates)
           /\ kv'[KeyStale(TripId)] # NULL /\ kv'[KeyStale(TripId)].value = StrTrue]_vars

(***************************************************************************)
(* SpecOrder: the owner saves one bundle in which any of the six lists     *)
(* (days and activities added, updated, deleted) has an entry, and one of  *)
(* the store statements of the call may fail; which changes the store      *)
(* kept shows the order in which the statements ran.                       *)
(***************************************************************************)
MaxOrderOps == 2
\* the ownership query and one statement per list
MaxStatements == 7

\* a list of the bundle: empty, or one of the given entries
OneOrNone(entries) == {<<>>} \cup {<<e>> : e \in entries}

\* the bundles the editor builds from independent edits: a new day, a
\* retitled day, a deleted empty day, a new activity of a day that stays, a
\* redescribed activity and a deleted one; every update changes the row
OrderedBundles(store) ==
  {[tripId |-> TripId,
    days |-> [added |-> da, updated |-> du, deleted |-> dd],
    activities |-> [added |-> aa, updated |-> au, deleted |-> ad]] :
     da \in OneOrNone({ClientDay(TempDayId, Cardinality(DayIdsOf(store)) + 1, "T1") :
                         x \in {y \in {store.nextDay} : y <= Len(DaySeq)}}),
     du \in OneOrNone({ClientDay(d, store.days[d].dayNumber, t) :
                         d \in {x \in DayIdsOf(store) : ActivityIdsOf(store, x) # {}},
                         t \in {x \in Titles : \A d \in DayIdsOf(store) : store.days[d].title # x}}),
     dd \in OneOrNone({x \in DayIdsOf(store) : ActivityIdsOf(store, x) = {}}),
     aa \in OneOrNone({ClientActivity(TempActivityId, d, "X1", 0) :
                         d \in {x \in DayIdsOf(store) :
                                  /\ ActivityIdsOf(store, x) # {}
                                  /\ store.nextAct <= Len(ActivitySeq)}}),
     au \in OneOrNone({ClientActivity(a, store.acts[a].dayId, x, store.acts[a].orderIndex) :
                         a \in {y \in ExistingActivities(store) : store.acts[y].orderIndex = 1},
                         x \in {y \in Descriptions :
                                  \A b \in ExistingActivities(store) :
                                    store.acts[b].description # y}}),
     ad \in OneOrNone({x \in ExistingActivities(store) : store.acts[x].orderIndex # 1})}

LoadO == LoadWith(MaxOrderOps, {NoInjection})
PopulateO == PopulateWith({NoInjection})
SaveOrdered ==
  SaveBundleWith(MaxOrderOps,
    {[caller |-> Owner, changes |-> c, inj |-> i] :
       c \in OrderedBundles(db), i \in {NoInjection} \cup DbInjections(MaxStatements)})

NextOrder == LoadO \/ PopulateO \/ SaveOrdered

SpecOrder == Init /\ [][NextOrder]_vars

(***************************************************************************)
(* C25                                                                     *)
(***************************************************************************)
\* the six phases of a bundle in the claimed order
Phases ==
  <<<<"days", "added">>, <<"days", "updated">>, <<"days", "deleted">>,
    <<"activities", "added">>, <<"activities", "updated">>,
    <<"activities", "deleted">>>>

PhaseRequested(changes, p) == BundleList(changes, Phases[p][1], Phases[p][2]) # <<>>

\* the store after the step kept the change of every entry of the phase
PhaseApplied(before, after, changes, p) ==
  LET list == BundleList(changes, Phases[p][1], Phases[p][2])
  IN CASE p = 1 -> after.nextDay = before.nextDay + Len(list)
       [] p = 2 -> \A i \in 1..Len(list) :
                     /\ after.days[list[i].id] # NULL
                     /\ after.days[list[i].id].title = list[i].title
       [] p = 3 -> \A i \in 1..Len(list) : after.days[list[i]] = NULL
       [] p = 4 -> after.nextAct = before.nextAct + Len(list)
       [] p = 5 -> \A i \in 1..Len(list) :
                     /\ after.acts[list[i].id] # NULL
                     /\ after.acts[list[i].id].description = list[i].description
       [] p = 6 -> \A i \in 1..Len(list) : after.acts[list[i]] = NULL

\* C25: whenever a saveGranularChanges stops, the changes the store kept
\* are a prefix of: days added, days updated, days deleted, activities
\* added, activities updated, activities deleted.
C25_PhasesInOrder ==
  [][(last'.op = "saveGranularChanges" /\ ops' = ops + 1)
       => \A p, q \in 1..Len(Phases) :
            (/\ p < q
             /\ PhaseRequested(last'.arg, p)
             /\ PhaseRequested(last'.arg, q)
             /\ PhaseApplied(db, db', last'.arg, q))
              => PhaseApplied(db, db', last'.arg, p)]_vars

\* a bundle with all six lists stopped after the day phases: the new day is
\* stored, d1 is retitled, d2 is gone, and no activity changed yet
C25_Witness ==
  /\ last.op = "saveGranularChanges"
  /\ last.exc = "db"
  /\ \A p \in 1..Len(Phases) : PhaseRequested(last.arg, p)
  /\ \A p \in 1..3 : PhaseApplied(InitialStore, db, last.arg, p)
  /\ \A p \in 4..6 : ~PhaseApplied(InitialStore, db, last.arg, p)

(***************************************************************************)
(* SpecRepopulate: loads that fall back to the store leave a background    *)
(* populateGranularCache running while the owner keeps editing; KV         *)
(* requests of a load or of a repopulation may fail.  The repopulation is  *)
(* a promise that is already running when the load returns, so it is       *)
(* taken eventually (weak fairness on PopulateR).                          *)
(***************************************************************************)
MaxRepopulateOps == 3

LoadR ==
  LoadWith(MaxRepopulateOps,
           {NoInjection} \cup KvInjections({"stale", "full", "structure"}))
PopulateR ==
  PopulateWith({NoInjection}
               \cup KvInjections({"meta", "day", "activity", "structure", "full", "stale"}))
SaveActivityR ==
  SaveActivityWith(MaxRepopulateOps,
                   OwnerInputs(ExistingActivities(db), "description", {"X1"}))
SaveDayR == SaveDayWith(MaxRepopulateOps, OwnerInputs(DayIdsOf(db), "title", {"T1"}))

NextRepopulate == LoadR \/ PopulateR \/ SaveActivityR \/ SaveDayR \/ Tick

\* PopulateR can be taken exactly when a repopulation is pending
PopulateEnabled == pending # {}

\* WF_vars(PopulateR), with ENABLED <<PopulateR>>_vars written as the state
\* predicate it is equal to
PopulateFair == []<>(~PopulateEnabled) \/ []<><<PopulateR>>_vars

SpecRepopulate == Init /\ [][NextRepopulate]_vars /\ PopulateFair

(***************************************************************************)
(* C26                                                                     *)
(***************************************************************************)
\* this step is a loadTripGranular that read the trip from the store
FellBackWithTrip ==
  LoadStep /\ last'.src = "db" /\ last'.ret # NULL

\* this step is the repopulation of a trip that was pending
Repopulated == pending' # pending /\ pending' \subseteq pending

\* the cache holds the metadata, every day, every activity, the structure
\* and the whole-document entry of the trip
WrittenFrom(cache, trip) ==
  LET st == Ctx(db, cache, {}, NULL, {}, 0)
      Ids(list) == [i \in 1..Len(list) |-> list[i].id]
  IN /\ GetMetadata(st, trip.id) # NULL
     /\ GetMetadata(st, trip.id).title = trip.title
     /\ \A i \in 1..Len(trip.days) :
          LET day == trip.days[i]
          IN /\ GetDay(st, day.id) # NULL
             /\ GetDay(st, day.id).title = day.title
             /\ GetDay(st, day.id).dayNumber = day.dayNumber
             /\ \A j \in 1..Len(day.activities) :
                  LET activity == day.activities[j]
                  IN /\ GetActivity(st, activity.id) # NULL
                     /\ GetActivity(st, activity.id).description = activity.description
                     /\ GetActivity(st, activity.id).dayId = day.id
     /\ GetStructure(st, trip.id) # NULL
     /\ GetStructure(st, trip.id).dayIds = Ids(trip.days)
     /\ \A i \in 1..Len(trip.days) :
          GetStructure(st, trip.id).dayMap[trip.days[i].id].activityIds
            = Ids(trip.days[i].activities)
     /\ cache[KeyFullTrip(trip.id)] # NULL
     /\ JSONParse(cache[KeyFullTrip(trip.id)].value).title = trip.title
     /\ JSONParse(cache[KeyFullTrip(trip.id)].value).days = trip.days

\* C26: a load that falls back to the store returns the trip it read
\* without writing the cache and leaves the repopulation pending; a
\* repopulation never throws; without transport failures it writes every
\* entry from the trip that load read; and a pending repopulation runs
\* eventually.
C26_FallbackRepopulation ==
  /\ [][FellBackWithTrip
          => /\ last'.exc = "none"
             /\ last'.ret = LoadFromDatabase(db, TripId)
             /\ kv' = kv
             /\ pending' = pending \cup {last'.ret}]_vars
  /\ [][Repopulated
          => /\ last'.op = "populateGranularCache"
             /\ last'.exc = "none"
             /\ pending \ pending' = {last'.arg}
             /\ last'.fail = {} => WrittenFrom(kv', last'.arg)]_vars
  /\ (pending # {} ~> pending = {})

\* a repopulation without failures has written a read that the store no
\* longer matches
C26_Witness ==
  /\ last.op = "populateGranularCache"
  /\ last.fail = {}
  /\ last.arg # LoadFromDatabase(db, TripId)
  /\ WrittenFrom(kv, last.arg)

(***************************************************************************)
(* C27                                                                     *)
(***************************************************************************)
\* this step is the first loadTripGranular after a completed
\* invalidateTripCache
LoadAfterInvalidate ==
  last.op = "invalidateTripCache" /\ last.exc = "none" /\ LoadStep

\* C27: the load that follows an invalidateTripCache does not answer from
\* the whole-document entry and does not return a placeholder.
C27_LoadAfterInvalidateIsFresh ==
  [][LoadAfterInvalidate
       => /\ last'.src # "full"
          /\ last'.ret # NULL => "invalidated" \notin DOMAIN last'.ret]_vars

(***************************************************************************)
(* The day actions: app/editor/[id]/actions/day-actions.ts                 *)
(***************************************************************************)
\* the renumbering loop of deleteDay: the i-th remaining day gets
\* dayNumber i when it has another one
RECURSIVE Renumber(_, _, _)
Renumber(st, remainingDays, i) ==
  IF st.exc # "none" \/ i > Len(remainingDays) THEN st
  ELSE Renumber(IF st.db.days[remainingDays[i]].dayNumber # i
                THEN DbUpdateDay(st, remainingDays[i], [dayNumber |-> i])
                ELSE st,
                remainingDays, i + 1)

\* deleteDay: delete the row (activities cascade), renumber the remaining
\* days, revalidatePath; no call to the cache service
DeleteDay(st, tripId, dayId) ==
  LET s0 == VerifyUser(st, tripId)
      s1 == DbDeleteDays(s0, {dayId})
      s2 == DbStatement(s1, s1.db, FALSE, FALSE)
  IN Renumber(s2, OrderedDayIds(s2.db), 1)

\* reorderDays: dayNumber i + 1 for the i-th id, revalidatePath; no call to
\* the cache service
RECURSIVE ReorderFrom(_, _, _)
ReorderFrom(st, dayIds, i) ==
  IF st.exc # "none" \/ i > Len(dayIds) THEN st
  ELSE ReorderFrom(DbUpdateDay(st, dayIds[i], [dayNumber |-> i]), dayIds, i + 1)

ReorderDays(st, tripId, dayIds) == ReorderFrom(VerifyUser(st, tripId), dayIds, 1)

(***************************************************************************)
(* SpecDayActions: the owner loads the trip, deletes a day or reorders the *)
(* days through the day actions, and loads again; nothing fails.           *)
(***************************************************************************)
MaxDayOps == 3

\* the orders the editor can send: the days of the store in any order
DayOrders(store) ==
  {s \in [1..Cardinality(DayIdsOf(store)) -> DayIdsOf(store)] :
     \A i, j \in DOMAIN s : s[i] = s[j] => i = j}

LoadA == LoadWith(MaxDayOps, {NoInjection})
PopulateA == PopulateWith({NoInjection})

DeleteDayA ==
  /\ ops < MaxDayOps
  /\ \E dayId \in DayIdsOf(db) :
       Done("deleteDay", DeleteDay(Ctx(db, kv, pending, Owner, {}, 0), TripId, dayId),
            NULL, "none", [dayId |-> dayId])
  /\ UNCHANGED saves

ReorderDaysA ==
  /\ ops < MaxDayOps
  /\ \E dayIds \in DayOrders(db) :
       Done("reorderDays", ReorderDays(Ctx(db, kv, pending, Owner, {}, 0), TripId, dayIds),
            NULL, "none", [dayIds |-> dayIds])
  /\ UNCHANGED saves

NextDayActions == LoadA \/ PopulateA \/ DeleteDayA \/ ReorderDaysA \/ Tick

SpecDayActions == Init /\ [][NextDayActions]_vars

(***************************************************************************)
(* C28                                                                     *)
(***************************************************************************)
\* the days of a trip: id and number, in the order listed
DaysListed(trip) ==
  [i \in 1..Len(trip.days) |-> <<trip.days[i].id, trip.days[i].dayNumber>>]

\* this step is the first loadTripGranular after a completed deleteDay or
\* reorderDays
LoadAfterDayAction ==
  last.op \in {"deleteDay", "reorderDays"} /\ last.exc = "none" /\ LoadStep

\* C28: the load that follows a deleteDay or a reorderDays returns the days
\* as the store holds them after the action.
C28_DayActionsInvalidate ==
  [][LoadAfterDayAction
       => /\ last'.ret # NULL
          /\ "days" \in DOMAIN last'.ret
          /\ DaysListed(last'.ret) = DaysListed(LoadFromDatabase(db', TripId))]_vars

(***************************************************************************)
(* SpecExpiry: the owner loads and edits the trip while time passes until  *)
(* entries written with the longest whole-document TTL have expired;       *)
(* nothing fails.                                                          *)
(***************************************************************************)
MaxExpiryOps == 3
MaxExpiryTicks == 3

LoadE == LoadWith(MaxExpiryOps, {NoInjection})
PopulateE == PopulateWith({NoInjection})
SaveActivityE ==
  SaveActivityWith(MaxExpiryOps, OwnerInputs(ExistingActivities(db), "description", {"X1"}))
SaveDayE == SaveDayWith(MaxExpiryOps, OwnerInputs(DayIdsOf(db), "title", {"T1"}))
ClearE == ClearWith(MaxExpiryOps, {NoInjection})

TickE ==
  /\ ticks < MaxExpiryTicks
  /\ kv' = Expire(kv, TickSeconds)
  /\ ticks' = ticks + 1
  /\ UNCHANGED <<db, pending, last, ops, saves, rw>>

NextExpiry == LoadE \/ PopulateE \/ SaveActivityE \/ SaveDayE \/ ClearE \/ TickE

SpecExpiry == Init /\ [][NextExpiry]_vars

(***************************************************************************)
(* C29                                                                     *)
(***************************************************************************)
\* the marker of the trip reads 'true' in this cache
MarkedStale(cache) ==
  cache[KeyStale(TripId)] # NULL /\ cache[KeyStale(TripId)].value = StrTrue

\* C29: a stale marker has at least as long to live as the whole-document
\* entry next to it, and while that entry lives on as time passes the
\* marker lives on with it.
C29_MarkerOutlivesPayload ==
  /\ []((MarkedStale(kv) /\ kv[KeyFullTrip(TripId)] # NULL)
          => kv[KeyStale(TripId)].ttl >= kv[KeyFullTrip(TripId)].ttl)
  /\ [][(/\ ticks' = ticks + 1
         /\ MarkedStale(kv)
         /\ kv[KeyFullTrip(TripId)] # NULL
         /\ kv'[KeyFullTrip(TripId)] # NULL)
          => MarkedStale(kv')]_vars

\* time has passed since a payload was cached and marked stale, and both
\* entries are still there
C29_Witness ==
  /\ MarkedStale(kv)
  /\ kv[KeyFullTrip(TripId)] # NULL
  /\ kv[KeyFullTrip(TripId)].ttl < kv[KeyStale(TripId)].ttl
  /\ kv[KeyStale(TripId)].ttl < TTL_FULL_TRIP

(***************************************************************************)
(* The single-layer cache: lib/cache/simple-cache.ts,                      *)
(* lib/data/trip-loader-simple.ts and the simple editor actions            *)
(***************************************************************************)
CACHE_TTL == 900
SIMPLE_INVALIDATED_TTL == 1

\* getCachedTrip: the parsed entry, or null on a miss or a failure
GetCachedTrip(st, tripId) == GetParsed(st, SimpleKey(tripId))

\* cacheTrip: failures are logged
CacheTrip(st, tripId, data) ==
  IF st.exc # "none" THEN st
  ELSE Catch(SetKV(st, SimpleKey(tripId), JSONStringify(data), CACHE_TTL))

\* invalidateCache: { invalidated: true } with ttl 1 under the key built
\* from its argument
InvalidateCache(st, tripId) ==
  IF st.exc # "none" THEN st
  ELSE Catch(SetKV(st, SimpleKey(tripId), JSONStringify(Invalidated),
                   SIMPLE_INVALIDATED_TTL))

\* loadTrip(tripId): [st |-> context after the call, ret |-> returned value,
\* src |-> "cache" or "db"]
LoadTrip(st, tripId) ==
  LET cached == GetCachedTrip(st, tripId)
      read == DbStatement(st, st.db, FALSE, FALSE)
      tripData == LoadFromDatabase(st.db, tripId)
  IN IF Truthy(cached) THEN [st |-> st, ret |-> cached, src |-> "cache"]
     ELSE IF read.exc # "none" THEN [st |-> Catch(read), ret |-> NULL, src |-> "error"]
     ELSE IF tripData = NULL THEN [st |-> read, ret |-> NULL, src |-> "db"]
     ELSE [st |-> CacheTrip(read, tripId, tripData), ret |-> tripData, src |-> "db"]

\* db.delete(trips).where(eq(trips.id, tripId)), cascading to days and
\* activities
DbDeleteTrip(st) ==
  IF st.exc # "none" THEN st
  ELSE DbStatement(st,
         [st.db EXCEPT !.trip = NULL,
                       !.days = [d \in DayIds |-> NULL],
                       !.acts = [a \in ActivityIds |-> NULL]],
         FALSE, TRUE)

\* saveTrip, step 4: the activities of one day are inserted or updated
RECURSIVE SaveTripActivities(_, _, _)
SaveTripActivities(st, dayId, list) ==
  IF list = <<>> \/ st.exc # "none" THEN st
  ELSE LET activity == Head(list)
           s1 == IF activity.id = TempActivityId
                 THEN DbInsertActivity(st, Spread(activity, [dayId |-> dayId]))
                 ELSE DbUpdateActivity(st, activity.id,
                        [description |-> activity.description,
                         orderIndex |-> activity.orderIndex])
       IN SaveTripActivities(s1, dayId, Tail(list))

\* saveTrip, step 3: each day is inserted or updated, the activities it no
\* longer lists are deleted
RECURSIVE SaveTripDays(_, _)
SaveTripDays(st, list) ==
  IF list = <<>> \/ st.exc # "none" THEN st
  ELSE LET day == Head(list)
           dayId == IF day.id = TempDayId THEN DaySeq[st.db.nextDay] ELSE day.id
           s1 == IF day.id = TempDayId THEN DbInsertDay(st, day)
                 ELSE DbUpdateDay(st, day.id,
                        [title |-> day.title, dayNumber |-> day.dayNumber])
           s2 == DbStatement(s1, s1.db, FALSE, FALSE)
           currentActivityIds ==
             {day.activities[i].id : i \in 1..Len(day.activities)} \ {TempActivityId}
           activitiesToDelete == ActivityIdsOf(s2.db, dayId) \ currentActivityIds
           s3 == IF activitiesToDelete # {} THEN DbDeleteActivities(s2, activitiesToDelete)
                 ELSE s2
       IN SaveTripDays(SaveTripActivities(s3, dayId, day.activities), Tail(list))

\* saveTrip of the simple actions: ownership, one transaction (rolled back
\* when a statement fails), then invalidateCache(`trip:${tripData.id}`)
SaveTrip(st, tripData) ==
  LET s0 == VerifyOwnership(st, tripData.id)
      s1 == DbUpdateTrip(s0, [title |-> tripData.title])
      s2 == DbStatement(s1, s1.db, FALSE, FALSE)
      currentDayIds ==
        {tripData.days[i].id : i \in 1..Len(tripData.days)} \ {TempDayId}
      daysToDelete == DayIdsOf(s2.db) \ currentDayIds
      s3 == IF daysToDelete # {} THEN DbDeleteDays(s2, daysToDelete) ELSE s2
      s4 == SaveTripDays(s3, tripData.days)
  IN IF s0.exc # "none" THEN s0
     ELSE IF s4.exc # "none" THEN [s4 EXCEPT !.db = s0.db]
     ELSE InvalidateCache(s4, PrefixedTripId)

\* publishTrip of the simple actions
PublishTrip(st, tripId) ==
  LET s0 == VerifyOwnership(st, tripId)
      s1 == DbUpdateTrip(s0, [status |-> "published"])
  IN InvalidateCache(s1, PrefixedTripId)

\* deleteTrip of the simple actions
DeleteTrip(st, tripId) ==
  InvalidateCache(DbDeleteTrip(VerifyOwnership(st, tripId)), PrefixedTripId)

(***************************************************************************)
(* SpecSimple: the owner loads, saves, publishes and deletes the trip      *)
(* through the single-layer cache; nothing fails.                          *)
(***************************************************************************)
MaxSimpleOps == 3

\* what the simple editor sends: the trip as stored with a new title, with
\* one activity redescribed, with one day removed, or with a new day
TripEdits(store) ==
  LET trip == LoadFromDatabase(store, TripId)
      Without(list, i) ==
        [j \in 1..(Len(list) - 1) |-> IF j < i THEN list[j] ELSE list[j + 1]]
  IN IF trip = NULL THEN {}
     ELSE {Spread(trip, [title |-> t]) : t \in Titles}
          \cup {Spread(trip, [days |-> Without(trip.days, i)]) :
                  i \in 1..Len(trip.days)}
          \cup {Spread(trip,
                  [days |-> [k \in 1..Len(trip.days) |->
                     IF k # i THEN trip.days[k]
                     ELSE Spread(trip.days[k],
                            [activities |->
                               [j \in 1..Len(trip.days[k].activities) |->
                                  Spread(trip.days[k].activities[j],
                                         [description |-> "X1"])]])]]) :
                  i \in {k \in 1..Len(trip.days) : trip.days[k].activities # <<>>}}
          \cup {Spread(trip,
                  [days |-> Append(trip.days,
                                   ClientDay(TempDayId, Len(trip.days) + 1, "T1"))]) :
                  x \in {y \in {store.nextDay} : y <= Len(DaySeq)}}

LoadTripS ==
  /\ ops < MaxSimpleOps
  /\ LET r == LoadTrip(Ctx(db, kv, pending, NULL, {}, 0), TripId)
     IN Done("loadTrip", r.st, r.ret, r.src, NULL)
  /\ UNCHANGED saves

SaveTripS ==
  /\ ops < MaxSimpleOps
  /\ \E tripData \in TripEdits(db) :
       Done("saveTrip", SaveTrip(Ctx(db, kv, pending, Owner, {}, 0), tripData),
            NULL, "none", tripData)
  /\ UNCHANGED saves

PublishTripS ==
  /\ ops < MaxSimpleOps
  /\ Done("publishTrip", PublishTrip(Ctx(db, kv, pending, Owner, {}, 0), TripId),
          NULL, "none", NULL)
  /\ UNCHANGED saves

DeleteTripS ==
  /\ ops < MaxSimpleOps
  /\ Done("deleteTrip", DeleteTrip(Ctx(db, kv, pending, Owner, {}, 0), TripId),
          NULL, "none", NULL)
  /\ UNCHANGED saves

NextSimple == LoadTripS \/ SaveTripS \/ PublishTripS \/ DeleteTripS \/ Tick

SpecSimple == Init /\ [][NextSimple]_vars

(***************************************************************************)
(* C30                                                                     *)
(***************************************************************************)
\* the contexts in which saveTrip, publishTrip or deleteTrip, called now by
\* the owner, has completed
AfterSimpleAction ==
  LET st == Ctx(db, kv, pending, Owner, {}, 0)
  IN {s \in {PublishTrip(st, TripId), DeleteTrip(st, TripId)}
             \cup {SaveTrip(st, tripData) : tripData \in TripEdits(db)} :
        s.exc = "none"}

\* C30: in every state where a trip payload is cached, a loadTrip that
\* follows a saveTrip, publishTrip or deleteTrip does not return that
\* payload, and the action has written the key getCachedTrip reads.
C30_SimpleInvalidation ==
  LET cached == GetCachedTrip(Observer, TripId)
  IN (cached # NULL /\ cached # Invalidated)
       => \A s \in AfterSimpleAction :
            /\ LoadTrip(s, TripId).ret # cached
            /\ s.kv[SimpleKey(TripId)] # kv[SimpleKey(TripId)]

====
